---- MODULE Spec2Model ----
(***************************************************************************)
(* A model of the incremental RRT / RRT* planner of src/services/rrt.ts    *)
(* (class RRTTree) together with the geometry helpers of utils/geo         *)
(* (src/unnamed/part_002).                                                 *)
(*                                                                         *)
(* Numbers.  The program computes with IEEE doubles.  Here coordinates,    *)
(* distances and costs are integers: a coordinate is a whole number of     *)
(* pixels, dist is the Euclidean norm rounded down to a whole pixel, and   *)
(* steer rounds the steered point towards its origin.  Math.random() is a  *)
(* draw from RandomValues, read as hundredths (0 .. 99 stands for [0,1)).  *)
(* Ids are 0-based as in the program; nodes is a 1-based sequence, so the  *)
(* node with id i is nodes[i + 1].                                         *)
(***************************************************************************)
EXTENDS Integers, Sequences, FiniteSets, TLC

VARIABLES
    nodes,            \* RRTTree.nodes: sequence of Node records
    microState,       \* RRTTree.microState: the CodeStep tag
    tempSample,       \* RRTTree.tempSample: Point or nullPoint
    tempNearestNode,  \* RRTTree.tempNearestNode: id of the referenced node, or null
    tempNewPoint,     \* RRTTree.tempNewPoint: Point or nullPoint
    tempNeighbors,    \* RRTTree.tempNeighbors: sequence of node ids
    tempBestParent,   \* RRTTree.tempBestParent: node id or null
    algorithm,        \* RRTTree.algorithm: "RRT" or "RRT*"
    obstacles,        \* RRTTree.obstacles: sequence of Obstacle records
    params,           \* RRTTree.params: SolverParams record
    call,             \* the method the caller invoked last: "new", "stepMicro", "step"
    ret,              \* the value that call returned
    ran,              \* the case a stepMicro call ran: a CodeStep, or "none"
                      \* (the planner was saturated, or the call was not stepMicro)
    last,             \* the value the last stepMicro call returned, made by the
                      \* caller or by step()'s loop
    driver            \* the App component: its start, goal, obstacles, algorithm
                      \* and parameter values, and whether treeRef holds a planner

vars == <<nodes, microState, tempSample, tempNearestNode, tempNewPoint,
          tempNeighbors, tempBestParent, algorithm, obstacles, params,
          call, ret, ran, last, driver>>

-----------------------------------------------------------------------------
(* Sizes of the model *)

\* largest params.maxIterations a planner is constructed with
MaxIterations == 6

\* the canvas handed to the constructor
Width == 40
Height == 20

\* values Math.random() takes, in hundredths
RandomValues == {20, 70}
RandScale == 100

\* the planner's fixed inputs
Start == [x |-> 2, y |-> 0]
Goal == [x |-> 28, y |-> 14]
StepSizeValue == 10
SearchRadiusValue == 15
GoalBiasValue == 50

NoObstacles == <<>>
\* an obstacle thinner than the 5-pixel spacing of the collision samples
Sliver == [x |-> 3, y |-> 0, w |-> 1, h |-> 2]
\* a small obstacle in the way of some direct connections
Pebble == [x |-> 12, y |-> 4, w |-> 1, h |-> 1]
Block == <<[x |-> 24, y |-> 7, w |-> 6, h |-> 8], Sliver, Pebble>>
ObstacleSets == {NoObstacles, Block}

AlgorithmTypes == {"RRT", "RRT*"}

CodeSteps == {"SAMPLE", "NEAREST", "STEER", "COLLISION_CHECK", "NEIGHBORS",
              "CHOOSE_PARENT", "ADD_NODE", "REWIRE", "IDLE"}

\* null for a node id, and for a Point
null == -1
nullPoint == [x |-> null, y |-> null]

-----------------------------------------------------------------------------
(* utils/geo *)

ISqrt(n) == CHOOSE k \in 0..n : k * k <= n /\ (k + 1) * (k + 1) > n

Min(a, b) == IF a < b THEN a ELSE b
Max(a, b) == IF a < b THEN b ELSE a

dist(p1, p2) ==
    ISqrt((p1.x - p2.x) * (p1.x - p2.x) + (p1.y - p2.y) * (p1.y - p2.y))

\* a draw is the three Math.random() values one SAMPLE may consume
Draws == [r : RandomValues, rx : RandomValues, ry : RandomValues]

samplePoint(width, height, draw) ==
    [x |-> (draw.rx * width) \div RandScale,
     y |-> (draw.ry * height) \div RandScale]

\* stepSize * cos(theta) resp. stepSize * sin(theta), rounded towards zero:
\* |stepSize * delta / sqrt(d2)| = sqrt(stepSize^2 * delta^2 / d2)
Along(stepSize, delta, d2) ==
    LET m == ISqrt((stepSize * stepSize * delta * delta) \div d2)
    IN  IF delta < 0 THEN -m ELSE m

\* steer that goes all the way to the target
steerToTarget(from, to, stepSize) == [x |-> to.x, y |-> to.y]

steer(from, to, stepSize) ==
    LET d == dist(from, to)
        d2 == (to.x - from.x) * (to.x - from.x) + (to.y - from.y) * (to.y - from.y)
    IN  IF d <= stepSize
        THEN [x |-> to.x, y |-> to.y]
        ELSE [x |-> from.x + Along(stepSize, to.x - from.x, d2),
              y |-> from.y + Along(stepSize, to.y - from.y, d2)]

\* The i-th of the steps + 1 sampled points p1 + (i / steps) * (p2 - p1) lies
\* in the rectangle; the comparison is multiplied through by steps > 0.
SampleInside(p1, p2, obstacle, i, steps) ==
    LET xs == p1.x * steps + i * (p2.x - p1.x)
        ys == p1.y * steps + i * (p2.y - p1.y)
    IN  /\ xs >= obstacle.x * steps
        /\ xs <= (obstacle.x + obstacle.w) * steps
        /\ ys >= obstacle.y * steps
        /\ ys <= (obstacle.y + obstacle.h) * steps

lineIntersectsObstacle(p1, p2, obstacle) ==
    LET minX == Min(p1.x, p2.x)
        maxX == Max(p1.x, p2.x)
        minY == Min(p1.y, p2.y)
        maxY == Max(p1.y, p2.y)
        d == dist(p1, p2)
        steps == (d + 4) \div 5        \* Math.ceil(d / 5)
    IN  IF \/ maxX < obstacle.x \/ minX > obstacle.x + obstacle.w
           \/ maxY < obstacle.y \/ minY > obstacle.y + obstacle.h
        THEN FALSE
        \* steps = 0: t = 0 / 0 is NaN and every comparison with NaN is false
        ELSE IF steps = 0 THEN FALSE
        ELSE \E i \in 0..steps : SampleInside(p1, p2, obstacle, i, steps)

\* checkCollision with every() in place of some()
checkCollisionEvery(p1, p2, obs) ==
    \A k \in 1..Len(obs) : lineIntersectsObstacle(p1, p2, obs[k])

checkCollision(p1, p2, obs) ==
    \E k \in 1..Len(obs) : lineIntersectsObstacle(p1, p2, obs[k])

-----------------------------------------------------------------------------
(* RRTTree: the planner as a value *)

\* the node with id i of the node list ns
At(ns, i) == ns[i + 1]

\* the planner object, as the record of its fields
Tree == [nodes |-> nodes, microState |-> microState, tempSample |-> tempSample,
         tempNearestNode |-> tempNearestNode, tempNewPoint |-> tempNewPoint,
         tempNeighbors |-> tempNeighbors, tempBestParent |-> tempBestParent,
         algorithm |-> algorithm, obstacles |-> obstacles, params |-> params]

\* constructor that seeds the root with a cost of its own
constructorRootCost(start, obs, ps, alg) ==
    [nodes |-> <<[id |-> 0, x |-> start.x, y |-> start.y, parentId |-> null,
                  cost |-> start.x + start.y, children |-> <<>>]>>,
     microState |-> "SAMPLE",
     tempSample |-> nullPoint,
     tempNearestNode |-> null,
     tempNewPoint |-> nullPoint,
     tempNeighbors |-> <<>>,
     tempBestParent |-> null,
     algorithm |-> alg,
     obstacles |-> obs,
     params |-> ps]

constructor(start, obs, ps, alg) ==
    [nodes |-> <<[id |-> 0, x |-> start.x, y |-> start.y, parentId |-> null,
                  cost |-> 0, children |-> <<>>]>>,
     microState |-> "SAMPLE",
     tempSample |-> nullPoint,
     tempNearestNode |-> null,
     tempNewPoint |-> nullPoint,
     tempNeighbors |-> <<>>,
     tempBestParent |-> null,
     algorithm |-> alg,
     obstacles |-> obs,
     params |-> ps]

resetTemp(t) ==
    [t EXCEPT !.tempSample = nullPoint,
              !.tempNearestNode = null,
              !.tempNewPoint = nullPoint,
              !.tempNeighbors = <<>>,
              !.tempBestParent = null]

\* updateCost with its loop over the children left out
updateCostNothing(ns, nodeId) == ns

\* the loop of updateCost counting the edge to each child twice
RECURSIVE updateChildrenDouble(_, _, _)
updateChildrenDouble(ns, nodeId, k) ==
    IF k > Len(At(ns, nodeId).children) THEN ns
    ELSE LET childId == At(ns, nodeId).children[k]
             ns1 == [ns EXCEPT ![childId + 1].cost =
                        At(ns, nodeId).cost + 2 * dist(At(ns, nodeId), At(ns, childId))]
         IN  updateChildrenDouble(updateChildrenDouble(ns1, childId, 1), nodeId, k + 1)

RECURSIVE updateCost(_, _), updateChildren(_, _, _)
\* the loop of updateCost over node.children, from its k-th element on
updateChildren(ns, nodeId, k) ==
    IF k > Len(At(ns, nodeId).children) THEN ns
    ELSE LET childId == At(ns, nodeId).children[k]
             ns1 == [ns EXCEPT ![childId + 1].cost =
                        At(ns, nodeId).cost + dist(At(ns, nodeId), At(ns, childId))]
         IN  updateChildren(updateCost(ns1, childId), nodeId, k + 1)

updateCost(ns, nodeId) == updateChildren(ns, nodeId, 1)

\* NEAREST: the scan taking a node that is as near as the nearest so far
RECURSIVE nearestScanTies(_, _, _, _, _)
nearestScanTies(ns, sample, i, minDist, idx) ==
    IF i >= Len(ns) THEN idx
    ELSE LET d == dist(At(ns, i), sample)
         IN  IF idx = null \/ d <= minDist
             THEN nearestScanTies(ns, sample, i + 1, d, i)
             ELSE nearestScanTies(ns, sample, i + 1, minDist, idx)

\* NEAREST: the scan over nodes[i ..] with the running minimum (idx = null
\* stands for minDist = Infinity)
RECURSIVE nearestScan(_, _, _, _, _)
nearestScan(ns, sample, i, minDist, idx) ==
    IF i >= Len(ns) THEN idx
    ELSE LET d == dist(At(ns, i), sample)
         IN  IF idx = null \/ d < minDist
             THEN nearestScan(ns, sample, i + 1, d, i)
             ELSE nearestScan(ns, sample, i + 1, minDist, idx)

\* NEIGHBORS: the scan leaving out the nodes at exactly searchRadius
neighborScanStrict(ns, newPoint, searchRadius) ==
    LET Near(n) == dist(n, newPoint) < searchRadius
        near == SelectSeq(ns, Near)
    IN  [k \in 1..Len(near) |-> near[k].id]

\* NEIGHBORS: the ids within searchRadius of the candidate, in scan order
neighborScan(ns, newPoint, searchRadius) ==
    LET Near(n) == dist(n, newPoint) <= searchRadius
        near == SelectSeq(ns, Near)
    IN  [k \in 1..Len(near) |-> near[k].id]

\* the loop of CHOOSE_PARENT without the collision test of the neighbor
RECURSIVE chooseParentScanNoCollision(_, _, _, _, _, _)
chooseParentScanNoCollision(ns, neighbors, newPoint, obs, k, best) ==
    IF k > Len(neighbors) THEN best.idx
    ELSE LET neighborIdx == neighbors[k]
             neighbor == At(ns, neighborIdx)
             potentialCost == neighbor.cost + dist(neighbor, newPoint)
         IN  IF potentialCost < best.cost
             THEN chooseParentScanNoCollision(ns, neighbors, newPoint, obs, k + 1,
                                              [idx |-> neighborIdx, cost |-> potentialCost])
             ELSE chooseParentScanNoCollision(ns, neighbors, newPoint, obs, k + 1, best)

\* the loop of CHOOSE_PARENT taking a neighbor that is as cheap as the best so far
RECURSIVE chooseParentScanTies(_, _, _, _, _, _)
chooseParentScanTies(ns, neighbors, newPoint, obs, k, best) ==
    IF k > Len(neighbors) THEN best.idx
    ELSE LET neighborIdx == neighbors[k]
             neighbor == At(ns, neighborIdx)
             potentialCost == neighbor.cost + dist(neighbor, newPoint)
         IN  IF potentialCost <= best.cost /\ ~checkCollision(neighbor, newPoint, obs)
             THEN chooseParentScanTies(ns, neighbors, newPoint, obs, k + 1,
                                       [idx |-> neighborIdx, cost |-> potentialCost])
             ELSE chooseParentScanTies(ns, neighbors, newPoint, obs, k + 1, best)

\* CHOOSE_PARENT: the loop over tempNeighbors[k ..] with the running best
RECURSIVE chooseParentScan(_, _, _, _, _, _)
chooseParentScan(ns, neighbors, newPoint, obs, k, best) ==
    IF k > Len(neighbors) THEN best.idx
    ELSE LET neighborIdx == neighbors[k]
             neighbor == At(ns, neighborIdx)
             potentialCost == neighbor.cost + dist(neighbor, newPoint)
         IN  IF potentialCost < best.cost /\ ~checkCollision(neighbor, newPoint, obs)
             THEN chooseParentScan(ns, neighbors, newPoint, obs, k + 1,
                                   [idx |-> neighborIdx, cost |-> potentialCost])
             ELSE chooseParentScan(ns, neighbors, newPoint, obs, k + 1, best)

\* reparent that leaves the neighbor in its old parent's children
reparentNoDetach(ns, neighborIdx, newNodeId, newCost) ==
    LET ns2 == [ns EXCEPT ![neighborIdx + 1].parentId = newNodeId,
                          ![neighborIdx + 1].cost = newCost]
        ns3 == [ns2 EXCEPT ![newNodeId + 1].children = Append(@, neighborIdx)]
    IN  updateCost(ns3, neighborIdx)

\* reparent that writes the neighbor's own id as its parent
reparentSelf(ns, neighborIdx, newNodeId, newCost) ==
    LET Keep(id) == id # neighborIdx
        oldParentId == At(ns, neighborIdx).parentId
        ns1 == IF oldParentId # null
               THEN [ns EXCEPT ![oldParentId + 1].children = SelectSeq(@, Keep)]
               ELSE ns
        ns2 == [ns1 EXCEPT ![neighborIdx + 1].parentId = neighborIdx,
                           ![neighborIdx + 1].cost = newCost]
    IN  [ns2 EXCEPT ![newNodeId + 1].children = Append(@, neighborIdx)]

\* reparent that writes the lower cost but leaves the neighbor under its old parent
reparentCostOnly(ns, neighborIdx, newNodeId, newCost) ==
    updateCost([ns EXCEPT ![neighborIdx + 1].cost = newCost], neighborIdx)

\* reparent that does not push the neighbor onto the new node's children
reparentNotAdopted(ns, neighborIdx, newNodeId, newCost) ==
    LET Keep(id) == id # neighborIdx
        oldParentId == At(ns, neighborIdx).parentId
        ns1 == IF oldParentId # null
               THEN [ns EXCEPT ![oldParentId + 1].children = SelectSeq(@, Keep)]
               ELSE ns
        ns2 == [ns1 EXCEPT ![neighborIdx + 1].parentId = newNodeId,
                           ![neighborIdx + 1].cost = newCost]
    IN  updateCost(ns2, neighborIdx)

\* REWIRE: re-parent neighbor neighborIdx to the new node newNodeId
reparent(ns, neighborIdx, newNodeId, newCost) ==
    LET Keep(id) == id # neighborIdx
        oldParentId == At(ns, neighborIdx).parentId
        ns1 == IF oldParentId # null
               THEN [ns EXCEPT ![oldParentId + 1].children = SelectSeq(@, Keep)]
               ELSE ns
        ns2 == [ns1 EXCEPT ![neighborIdx + 1].parentId = newNodeId,
                           ![neighborIdx + 1].cost = newCost]
        ns3 == [ns2 EXCEPT ![newNodeId + 1].children = Append(@, neighborIdx)]
    IN  updateCost(ns3, neighborIdx)

\* REWIRE: the loop over tempNeighbors[k ..]
RECURSIVE rewireScan(_, _, _, _, _)
rewireScan(ns, neighbors, newNodeId, obs, k) ==
    IF k > Len(neighbors) THEN ns
    ELSE LET neighborIdx == neighbors[k]
             newNode == At(ns, newNodeId)
             neighbor == At(ns, neighborIdx)
             newCostThroughNewNode == newNode.cost + dist(newNode, neighbor)
         IN  IF neighborIdx = newNode.parentId
             THEN rewireScan(ns, neighbors, newNodeId, obs, k + 1)
             ELSE IF newCostThroughNewNode < neighbor.cost
                     /\ ~checkCollision(newNode, neighbor, obs)
             THEN rewireScan(reparent(ns, neighborIdx, newNodeId, newCostThroughNewNode),
                             neighbors, newNodeId, obs, k + 1)
             ELSE rewireScan(ns, neighbors, newNodeId, obs, k + 1)

\* the result of one stepMicro call: the planner afterwards and the value returned
Result(t, r) == [t |-> t, ret |-> r]

\* the saturation test off by one
SaturatedLate(t) == Len(t.nodes) > t.params.maxIterations

Saturated(t) == Len(t.nodes) >= t.params.maxIterations

\* SAMPLE that takes the goal branch when the draw equals goalBias too
caseSampleInclusive(t, draw) ==
    Result([t EXCEPT !.tempSample = IF draw.r <= t.params.goalBias
                                    THEN Goal
                                    ELSE samplePoint(Width, Height, draw),
                     !.microState = "NEAREST"], TRUE)

caseSample(t, draw) ==
    Result([t EXCEPT !.tempSample = IF draw.r < t.params.goalBias
                                    THEN Goal
                                    ELSE samplePoint(Width, Height, draw),
                     !.microState = "NEAREST"], TRUE)

\* NEAREST that moves on without storing the node it found
caseNearestNotStored(t) ==
    IF t.tempSample = nullPoint
    THEN Result([t EXCEPT !.microState = "SAMPLE"], TRUE)
    ELSE Result([t EXCEPT !.microState = "STEER"], TRUE)

caseNearest(t) ==
    IF t.tempSample = nullPoint
    THEN Result([t EXCEPT !.microState = "SAMPLE"], TRUE)
    ELSE Result([t EXCEPT !.tempNearestNode =
                              nearestScan(t.nodes, t.tempSample, 0, 0, null),
                          !.microState = "STEER"], TRUE)

caseSteer(t) ==
    IF t.tempNearestNode = null \/ t.tempSample = nullPoint
    THEN Result([t EXCEPT !.microState = "SAMPLE"], TRUE)
    ELSE Result([t EXCEPT !.tempNewPoint = steer(At(t.nodes, t.tempNearestNode),
                                                 t.tempSample, t.params.stepSize),
                          !.microState = "COLLISION_CHECK"], TRUE)

\* COLLISION_CHECK that goes on to NEIGHBORS whatever the variant
caseCollisionCheckAlwaysNeighbors(t) ==
    IF t.tempNearestNode = null \/ t.tempNewPoint = nullPoint
    THEN Result([t EXCEPT !.microState = "SAMPLE"], TRUE)
    ELSE IF checkCollision(At(t.nodes, t.tempNearestNode), t.tempNewPoint, t.obstacles)
    THEN Result([resetTemp(t) EXCEPT !.microState = "SAMPLE"], FALSE)
    ELSE Result([t EXCEPT !.microState = "NEIGHBORS"], TRUE)

\* COLLISION_CHECK that discards a blocked candidate but reports the iteration as going on
caseCollisionCheckReturnsTrue(t) ==
    IF t.tempNearestNode = null \/ t.tempNewPoint = nullPoint
    THEN Result([t EXCEPT !.microState = "SAMPLE"], TRUE)
    ELSE IF checkCollision(At(t.nodes, t.tempNearestNode), t.tempNewPoint, t.obstacles)
    THEN Result([resetTemp(t) EXCEPT !.microState = "SAMPLE"], TRUE)
    ELSE IF t.algorithm = "RRT*"
    THEN Result([t EXCEPT !.microState = "NEIGHBORS"], TRUE)
    ELSE Result([t EXCEPT !.microState = "ADD_NODE"], TRUE)

\* COLLISION_CHECK that discards a blocked candidate without resetTemp()
caseCollisionCheckKeepsScratch(t) ==
    IF t.tempNearestNode = null \/ t.tempNewPoint = nullPoint
    THEN Result([t EXCEPT !.microState = "SAMPLE"], TRUE)
    ELSE IF checkCollision(At(t.nodes, t.tempNearestNode), t.tempNewPoint, t.obstacles)
    THEN Result([t EXCEPT !.microState = "SAMPLE"], FALSE)
    ELSE IF t.algorithm = "RRT*"
    THEN Result([t EXCEPT !.microState = "NEIGHBORS"], TRUE)
    ELSE Result([t EXCEPT !.microState = "ADD_NODE"], TRUE)

caseCollisionCheck(t) ==
    IF t.tempNearestNode = null \/ t.tempNewPoint = nullPoint
    THEN Result([t EXCEPT !.microState = "SAMPLE"], TRUE)
    ELSE IF checkCollision(At(t.nodes, t.tempNearestNode), t.tempNewPoint, t.obstacles)
    THEN Result([resetTemp(t) EXCEPT !.microState = "SAMPLE"], FALSE)
    ELSE IF t.algorithm = "RRT*"
    THEN Result([t EXCEPT !.microState = "NEIGHBORS"], TRUE)
    ELSE Result([t EXCEPT !.microState = "ADD_NODE"], TRUE)

caseNeighbors(t) ==
    IF t.tempNewPoint = nullPoint
    THEN Result([t EXCEPT !.microState = "SAMPLE"], TRUE)
    ELSE Result([t EXCEPT !.tempNeighbors =
                              neighborScan(t.nodes, t.tempNewPoint, t.params.searchRadius),
                          !.microState = "CHOOSE_PARENT"], TRUE)

\* CHOOSE_PARENT that already pushes the coming node's id onto the chosen
\* parent's children
caseChooseParentAdopts(t) ==
    IF t.tempNewPoint = nullPoint \/ t.tempNearestNode = null
    THEN Result([t EXCEPT !.microState = "SAMPLE"], TRUE)
    ELSE LET nearest == At(t.nodes, t.tempNearestNode)
             first == [idx |-> nearest.id,
                       cost |-> nearest.cost + dist(nearest, t.tempNewPoint)]
             best == chooseParentScan(t.nodes, t.tempNeighbors, t.tempNewPoint,
                                      t.obstacles, 1, first)
         IN  Result([t EXCEPT !.tempBestParent = best,
                              !.nodes[best + 1].children = Append(@, Len(t.nodes)),
                              !.microState = "ADD_NODE"], TRUE)

caseChooseParent(t) ==
    IF t.tempNewPoint = nullPoint \/ t.tempNearestNode = null
    THEN Result([t EXCEPT !.microState = "SAMPLE"], TRUE)
    ELSE LET nearest == At(t.nodes, t.tempNearestNode)
             first == [idx |-> nearest.id,
                       cost |-> nearest.cost + dist(nearest, t.tempNewPoint)]
         IN  Result([t EXCEPT !.tempBestParent =
                                  chooseParentScan(t.nodes, t.tempNeighbors, t.tempNewPoint,
                                                   t.obstacles, 1, first),
                              !.microState = "ADD_NODE"], TRUE)

\* ADD_NODE that concludes the iteration under RRT* as it does under RRT
caseAddNodeConcludes(t) ==
    IF t.tempNewPoint = nullPoint
    THEN Result([t EXCEPT !.microState = "SAMPLE"], TRUE)
    ELSE LET finalParentIdx == IF t.algorithm = "RRT*" /\ t.tempBestParent # null
                               THEN t.tempBestParent
                               ELSE t.tempNearestNode
             parent == At(t.nodes, finalParentIdx)
             newNodeId == Len(t.nodes)
             newNode == [id |-> newNodeId, x |-> t.tempNewPoint.x, y |-> t.tempNewPoint.y,
                         parentId |-> finalParentIdx,
                         cost |-> parent.cost + dist(parent, t.tempNewPoint),
                         children |-> <<>>]
             pushed == Append(t.nodes, newNode)
             linked == [pushed EXCEPT ![finalParentIdx + 1].children = Append(@, newNodeId)]
         IN  Result([resetTemp([t EXCEPT !.nodes = linked]) EXCEPT !.microState = "SAMPLE"],
                    FALSE)

\* ADD_NODE that stores the length of the new edge as the new node's cost
caseAddNodeEdgeCostOnly(t) ==
    IF t.tempNewPoint = nullPoint
    THEN Result([t EXCEPT !.microState = "SAMPLE"], TRUE)
    ELSE LET nearestIdx == IF t.tempNearestNode = null THEN 0 ELSE t.tempNearestNode
             finalParentIdx == IF t.algorithm = "RRT*" /\ t.tempBestParent # null
                               THEN t.tempBestParent
                               ELSE nearestIdx
             parent == At(t.nodes, finalParentIdx)
             newNodeId == Len(t.nodes)
             newNode == [id |-> newNodeId, x |-> t.tempNewPoint.x, y |-> t.tempNewPoint.y,
                         parentId |-> finalParentIdx,
                         cost |-> dist(parent, t.tempNewPoint),
                         children |-> <<>>]
             pushed == Append(t.nodes, newNode)
             linked == [pushed EXCEPT ![finalParentIdx + 1].children = Append(@, newNodeId)]
             t1 == [t EXCEPT !.nodes = linked]
         IN  IF t.algorithm = "RRT*"
             THEN Result([t1 EXCEPT !.microState = "REWIRE"], TRUE)
             ELSE Result([resetTemp(t1) EXCEPT !.microState = "SAMPLE"], FALSE)

\* ADD_NODE that numbers the new node one past its index
caseAddNodeIdOffByOne(t) ==
    IF t.tempNewPoint = nullPoint
    THEN Result([t EXCEPT !.microState = "SAMPLE"], TRUE)
    ELSE LET nearestIdx == IF t.tempNearestNode = null THEN 0 ELSE t.tempNearestNode
             finalParentIdx == IF t.algorithm = "RRT*" /\ t.tempBestParent # null
                               THEN t.tempBestParent
                               ELSE nearestIdx
             parent == At(t.nodes, finalParentIdx)
             newNodeId == Len(t.nodes)
             newNode == [id |-> newNodeId + 1, x |-> t.tempNewPoint.x, y |-> t.tempNewPoint.y,
                         parentId |-> finalParentIdx,
                         cost |-> parent.cost + dist(parent, t.tempNewPoint),
                         children |-> <<>>]
             pushed == Append(t.nodes, newNode)
             linked == [pushed EXCEPT ![finalParentIdx + 1].children = Append(@, newNodeId)]
             t1 == [t EXCEPT !.nodes = linked]
         IN  IF t.algorithm = "RRT*"
             THEN Result([t1 EXCEPT !.microState = "REWIRE"], TRUE)
             ELSE Result([resetTemp(t1) EXCEPT !.microState = "SAMPLE"], FALSE)

caseAddNode(t) ==
    IF t.tempNewPoint = nullPoint
    THEN Result([t EXCEPT !.microState = "SAMPLE"], TRUE)
    ELSE LET nearestIdx == IF t.tempNearestNode = null THEN 0 ELSE t.tempNearestNode
             finalParentIdx == IF t.algorithm = "RRT*" /\ t.tempBestParent # null
                               THEN t.tempBestParent
                               ELSE nearestIdx
             parent == At(t.nodes, finalParentIdx)
             newNodeId == Len(t.nodes)
             newNode == [id |-> newNodeId, x |-> t.tempNewPoint.x, y |-> t.tempNewPoint.y,
                         parentId |-> finalParentIdx,
                         cost |-> parent.cost + dist(parent, t.tempNewPoint),
                         children |-> <<>>]
             pushed == Append(t.nodes, newNode)
             linked == [pushed EXCEPT ![finalParentIdx + 1].children = Append(@, newNodeId)]
             t1 == [t EXCEPT !.nodes = linked]
         IN  IF t.algorithm = "RRT*"
             THEN Result([t1 EXCEPT !.microState = "REWIRE"], TRUE)
             ELSE Result([resetTemp(t1) EXCEPT !.microState = "SAMPLE"], FALSE)

\* REWIRE that reports the iteration as still in progress
caseRewireReturnsTrue(t) ==
    LET t1 == IF t.algorithm = "RRT*" /\ t.tempNewPoint # nullPoint
              THEN [t EXCEPT !.nodes = rewireScan(t.nodes, t.tempNeighbors,
                                                  Len(t.nodes) - 1, t.obstacles, 1)]
              ELSE t
    IN  Result([resetTemp(t1) EXCEPT !.microState = "SAMPLE"], TRUE)

caseRewire(t) ==
    LET t1 == IF t.algorithm = "RRT*" /\ t.tempNewPoint # nullPoint
              THEN [t EXCEPT !.nodes = rewireScan(t.nodes, t.tempNeighbors,
                                                  Len(t.nodes) - 1, t.obstacles, 1)]
              ELSE t
    IN  Result([resetTemp(t1) EXCEPT !.microState = "SAMPLE"], FALSE)

\* stepMicro without the saturation test of its first line
stepMicroNoCap(t, draw) ==
    CASE t.microState = "SAMPLE" -> caseSample(t, draw)
      [] t.microState = "NEAREST" -> caseNearest(t)
      [] t.microState = "STEER" -> caseSteer(t)
      [] t.microState = "COLLISION_CHECK" -> caseCollisionCheck(t)
      [] t.microState = "NEIGHBORS" -> caseNeighbors(t)
      [] t.microState = "CHOOSE_PARENT" -> caseChooseParent(t)
      [] t.microState = "ADD_NODE" -> caseAddNode(t)
      [] t.microState = "REWIRE" -> caseRewire(t)
      [] OTHER -> Result([t EXCEPT !.microState = "SAMPLE"], TRUE)

stepMicro(t, draw) ==
    IF Saturated(t) THEN Result(t, FALSE)
    ELSE CASE t.microState = "SAMPLE" -> caseSample(t, draw)
           [] t.microState = "NEAREST" -> caseNearest(t)
           [] t.microState = "STEER" -> caseSteer(t)
           [] t.microState = "COLLISION_CHECK" -> caseCollisionCheck(t)
           [] t.microState = "NEIGHBORS" -> caseNeighbors(t)
           [] t.microState = "CHOOSE_PARENT" -> caseChooseParent(t)
           [] t.microState = "ADD_NODE" -> caseAddNode(t)
           [] t.microState = "REWIRE" -> caseRewire(t)
           [] OTHER -> Result([t EXCEPT !.microState = "SAMPLE"], TRUE)

\* the number of loop iterations step() allows itself
StepCap == 20

\* the drain loop with a safety cap below the length of an iteration
RECURSIVE stepLoopCapTooSmall(_, _, _)
stepLoopCapTooSmall(t, draw, n) ==
    LET r == stepMicro(t, draw)
    IN  IF r.ret /\ n < 3
        THEN stepLoopCapTooSmall(r.t, draw, n + 1)
        ELSE [t |-> r.t, ret |-> TRUE, calls |-> n + 1, last |-> r.ret]

\* the drain loop leaving after its first stepMicro call
stepLoopOnce(t, draw, n) ==
    LET r == stepMicro(t, draw)
    IN  [t |-> r.t, ret |-> TRUE, calls |-> n + 1, last |-> r.ret]

\* step(): while (this.stepMicro() && ops < 20) ops++.  The value is the
\* planner after the loop, with the number of stepMicro calls made (calls) and
\* the value the last of them returned (last).  Every SAMPLE of one drain
\* consumes the same draw.
RECURSIVE stepLoop(_, _, _)
stepLoop(t, draw, n) ==
    LET r == stepMicro(t, draw)
    IN  IF r.ret /\ n < StepCap
        THEN stepLoop(r.t, draw, n + 1)
        ELSE [t |-> r.t, ret |-> TRUE, calls |-> n + 1, last |-> r.ret]

step(t, draw) == stepLoop(t, draw, 0)

\* n presses of the Step button with the code view open: n consecutive
\* stepMicro calls, with the planner they leave and the values they returned
RECURSIVE microCalls(_, _, _)
microCalls(t, draw, n) ==
    IF n = 0
    THEN [t |-> t, rets |-> <<>>]
    ELSE LET r == stepMicro(t, draw)
             rest == microCalls(r.t, draw, n - 1)
         IN  [t |-> rest.t, rets |-> <<r.ret>> \o rest.rets]

\* the caller's own loop: stepMicro again and again until it returns false
\* (the Step button with the code view open, pressed until the iteration ends)
RECURSIVE microDrain(_, _)
microDrain(t, draw) ==
    LET r == stepMicro(t, draw)
    IN  IF r.ret THEN microDrain(r.t, draw) ELSE r.t

-----------------------------------------------------------------------------
(* The caller: construction, then any interleaving of stepMicro and step *)

Install(t) ==
    /\ nodes' = t.nodes
    /\ microState' = t.microState
    /\ tempSample' = t.tempSample
    /\ tempNearestNode' = t.tempNearestNode
    /\ tempNewPoint' = t.tempNewPoint
    /\ tempNeighbors' = t.tempNeighbors
    /\ tempBestParent' = t.tempBestParent
    /\ algorithm' = t.algorithm
    /\ obstacles' = t.obstacles
    /\ params' = t.params

\* the App state from which initTree has built planner t
DriverOf(t) ==
    [tree |-> TRUE, start |-> Start, goal |-> Goal, obstacles |-> t.obstacles,
     algorithm |-> t.algorithm, stepSize |-> t.params.stepSize,
     maxIterations |-> t.params.maxIterations, goalBias |-> t.params.goalBias,
     searchRadius |-> t.params.searchRadius]

ParamsSet == [stepSize : {StepSizeValue}, maxIterations : 1..MaxIterations,
              goalBias : {GoalBiasValue}, searchRadius : {SearchRadiusValue}]

Init ==
    \E alg \in AlgorithmTypes, obs \in ObstacleSets, ps \in ParamsSet :
        LET t == constructor(Start, obs, ps, alg)
        IN  /\ nodes = t.nodes
            /\ microState = t.microState
            /\ tempSample = t.tempSample
            /\ tempNearestNode = t.tempNearestNode
            /\ tempNewPoint = t.tempNewPoint
            /\ tempNeighbors = t.tempNeighbors
            /\ tempBestParent = t.tempBestParent
            /\ algorithm = t.algorithm
            /\ obstacles = t.obstacles
            /\ params = t.params
            /\ call = "new"
            /\ ret = TRUE
            /\ ran = "none"
            /\ last = TRUE
            /\ driver = DriverOf(t)

\* Math.random() is called by SAMPLE only: a call that runs no SAMPLE reads no
\* draw.  A drain runs SAMPLE when it starts there or when its first
\* micro-step falls back there and lets the loop go on.
AnyDraw == CHOOSE d \in Draws : TRUE

\* the draws one SAMPLE can read: the goal branch calls Math.random() once,
\* the other branch three times (rx and ry stand still when they are not read)
SampleDraws(t) ==
    {d \in Draws : d.r < t.params.goalBias => (d.rx = AnyDraw.rx /\ d.ry = AnyDraw.ry)}

DrawsOfStepMicro(t) ==
    IF ~Saturated(t) /\ t.microState = "SAMPLE" THEN SampleDraws(t) ELSE {AnyDraw}

DrawsOfStep(t) ==
    LET r == stepMicro(t, AnyDraw)
    IN  IF ~Saturated(t) /\ (t.microState = "SAMPLE"
                             \/ (r.ret /\ r.t.microState = "SAMPLE"))
        THEN SampleDraws(t) ELSE {AnyDraw}

StepMicro ==
    \E draw \in DrawsOfStepMicro(Tree) :
        LET r == stepMicro(Tree, draw)
        IN  /\ Install(r.t)
            /\ call' = "stepMicro"
            /\ ret' = r.ret
            /\ ran' = IF Saturated(Tree) THEN "none" ELSE microState
            /\ last' = r.ret
            /\ driver' = driver

Step ==
    \E draw \in DrawsOfStep(Tree) :
        LET r == step(Tree, draw)
        IN  /\ Install(r.t)
            /\ call' = "step"
            /\ ret' = r.ret
            /\ ran' = "none"
            /\ last' = r.last
            /\ driver' = driver

Next == StepMicro \/ Step

Spec == Init /\ [][Next]_vars

-----------------------------------------------------------------------------
(* Tree store: shapes used by the properties *)

NodeIds == 0..(Len(nodes) - 1)

InSeq(e, seq) == \E k \in 1..Len(seq) : seq[k] = e

\* a node that REWIRE re-parented: its parent was appended after it
Rewired(n) == n.parentId # null /\ n.parentId > n.id

\* the ancestor reached from id i by following parentId k times (null past the root)
RECURSIVE Ancestor(_, _, _)
Ancestor(ns, i, k) ==
    IF i = null \/ k = 0 THEN i ELSE Ancestor(ns, At(ns, i).parentId, k - 1)

\* a re-parented node one of whose children was already its child when it was
\* re-parented, so that the cost cascade ran over that child
Cascaded(n) ==
    /\ Rewired(n)
    /\ \E k \in 1..Len(n.children) : n.children[k] < n.parentId

-----------------------------------------------------------------------------
(* Properties of the tree store *)

\* C1: in every reachable state every non-root node's cost is its parent's
\* cost plus its distance to the parent (after ADD_NODE, and after REWIRE with
\* its cost cascade over the descendants of each re-parented neighbor).
C1_CostIsParentCostPlusEdge ==
    \A i \in NodeIds :
        LET n == At(nodes, i)
        IN  n.parentId # null =>
                n.cost = At(nodes, n.parentId).cost + dist(n, At(nodes, n.parentId))

\* a REWIRE has re-parented a node that had a child, and has been concluded
C1_Witness ==
    /\ microState = "SAMPLE"
    /\ \E i \in NodeIds : Cascaded(At(nodes, i))

\* C2: parentId and children are mutual inverses in every reachable state.
C2_ParentChildInverse ==
    /\ \A i \in NodeIds :
          At(nodes, i).parentId # null => InSeq(i, At(nodes, At(nodes, i).parentId).children)
    /\ \A p \in NodeIds :
          \A k \in 1..Len(At(nodes, p).children) :
              /\ At(nodes, p).children[k] \in NodeIds
              /\ At(nodes, At(nodes, p).children[k]).parentId = p

\* a REWIRE has moved a node from its old parent's children to the new node's
C2_Witness ==
    /\ ran = "REWIRE" /\ microState = "SAMPLE"
    /\ \E i \in NodeIds : Rewired(At(nodes, i))

\* C3: the parent graph is acyclic and rooted: node 0 has no parent, and from
\* every node following parentId reaches node 0 in at most Len(nodes) steps.
C3_RootedAcyclic ==
    /\ At(nodes, 0).parentId = null
    /\ \A i \in NodeIds : \E k \in 0..Len(nodes) : Ancestor(nodes, i, k) = 0

\* below a re-parented node hangs a node from which the root is three parent
\* links away, the middle one made by REWIRE
C3_Witness ==
    \E c \in NodeIds :
        /\ Ancestor(nodes, c, 1) \notin {null, 0}
        /\ Rewired(At(nodes, Ancestor(nodes, c, 1)))
        /\ Ancestor(nodes, c, 2) # 0
        /\ Ancestor(nodes, c, 3) = 0

-----------------------------------------------------------------------------
(* Properties of the micro-state machine *)

RRTSteps == {"SAMPLE", "NEAREST", "STEER", "COLLISION_CHECK", "ADD_NODE"}
RRTStarSteps == CodeSteps \ {"IDLE"}

\* the candidate segment nearest -> tempNewPoint is blocked (read at COLLISION_CHECK)
Blocked == checkCollision(At(nodes, tempNearestNode), tempNewPoint, obstacles)

\* the protocol edges; the one out of COLLISION_CHECK depends on the test
ProtocolEdge(from, to) ==
    \/ from = "SAMPLE" /\ to = "NEAREST"
    \/ from = "NEAREST" /\ to = "STEER"
    \/ from = "STEER" /\ to = "COLLISION_CHECK"
    \/ from = "COLLISION_CHECK" /\ Blocked /\ to = "SAMPLE"
    \/ from = "COLLISION_CHECK" /\ ~Blocked /\ algorithm = "RRT*" /\ to = "NEIGHBORS"
    \/ from = "COLLISION_CHECK" /\ ~Blocked /\ algorithm = "RRT" /\ to = "ADD_NODE"
    \/ from = "NEIGHBORS" /\ to = "CHOOSE_PARENT"
    \/ from = "CHOOSE_PARENT" /\ to = "ADD_NODE"
    \/ from = "ADD_NODE" /\ algorithm = "RRT*" /\ to = "REWIRE"
    \/ from = "ADD_NODE" /\ algorithm = "RRT" /\ to = "SAMPLE"
    \/ from = "REWIRE" /\ to = "SAMPLE"

ScratchCleared ==
    /\ tempSample = nullPoint
    /\ tempNearestNode = null
    /\ tempNewPoint = nullPoint
    /\ tempNeighbors = <<>>
    /\ tempBestParent = null

\* C4: the tag is always one of the variant's tags (never NEIGHBORS,
\* CHOOSE_PARENT or REWIRE under RRT, never IDLE), and a stepMicro call moves
\* it along one edge of the protocol order, or leaves it alone when the
\* planner is saturated.
C4_ProtocolOrder ==
    /\ [](microState \in (IF algorithm = "RRT" THEN RRTSteps ELSE RRTStarSteps))
    /\ [][call' = "stepMicro" =>
            IF Len(nodes) >= params.maxIterations
            THEN microState' = microState
            ELSE ProtocolEdge(microState, microState')]_vars

\* an RRT* iteration stepped through by stepMicro calls has added a node and
\* come back to SAMPLE
C4_Witness ==
    /\ algorithm = "RRT*" /\ call = "stepMicro" /\ ran = "REWIRE"
    /\ microState = "SAMPLE" /\ Len(nodes) = 2

\* C5: a stepMicro call returns false exactly when the planner was saturated,
\* or COLLISION_CHECK found the candidate blocked, or ADD_NODE ran under RRT,
\* or REWIRE ran; and it appends a node exactly when it ran ADD_NODE.
C5_ReturnsFalseIffConcluded ==
    [][call' = "stepMicro" =>
          /\ ret' = FALSE <=>
                \/ Len(nodes) >= params.maxIterations
                \/ microState = "COLLISION_CHECK" /\ Blocked
                \/ microState = "ADD_NODE" /\ algorithm = "RRT"
                \/ microState = "REWIRE"
          /\ Len(nodes') = IF Len(nodes) < params.maxIterations /\ microState = "ADD_NODE"
                           THEN Len(nodes) + 1 ELSE Len(nodes)]_vars

\* a stepMicro call has run COLLISION_CHECK, discarded the candidate and
\* returned false
C5_Witness ==
    /\ call = "stepMicro" /\ ret = FALSE /\ ran = "COLLISION_CHECK"

\* C6: from a saturated planner a stepMicro call returns false, and neither
\* stepMicro nor step changes the node list, the tag or a scratch field.
C6_SaturatedIsNoOp ==
    [][Len(nodes) >= params.maxIterations =>
          /\ UNCHANGED <<nodes, microState, tempSample, tempNearestNode,
                         tempNewPoint, tempNeighbors, tempBestParent>>
          /\ call' = "stepMicro" => ret' = FALSE]_vars

\* stepMicro has been called on a planner that an RRT* ADD_NODE saturated
C6_Witness ==
    /\ Len(nodes) >= params.maxIterations
    /\ microState = "REWIRE" /\ call = "stepMicro" /\ ret = FALSE /\ ran = "none"

\* C7: the node count never exceeds maxIterations (maxIterations >= 1).
C7_NodeCountCapped == Len(nodes) <= params.maxIterations

\* a planner built with the largest maxIterations has filled up
C7_Witness ==
    /\ params.maxIterations = MaxIterations
    /\ Len(nodes) = params.maxIterations

\* C8: right after a stepMicro call that returned false the scratch fields
\* are cleared and the tag is SAMPLE.
C8_ClearedAfterConclusion ==
    (call = "stepMicro" /\ ret = FALSE) => (ScratchCleared /\ microState = "SAMPLE")

\* C9: the scratch fields the current tag reads are present, and the tag is
\* never one that only the default branch handles.
C9_ScratchPresent ==
    /\ microState # "IDLE"
    /\ microState = "NEAREST" => tempSample # nullPoint
    /\ microState = "STEER" => tempSample # nullPoint /\ tempNearestNode # null
    /\ microState \in {"COLLISION_CHECK", "NEIGHBORS", "CHOOSE_PARENT", "ADD_NODE"} =>
           tempNearestNode # null /\ tempNewPoint # nullPoint
    /\ (algorithm = "RRT*" /\ microState \in {"ADD_NODE", "REWIRE"}) =>
           tempNewPoint # nullPoint /\ tempBestParent # null

\* an RRT* planner stands at REWIRE, its new node attached to a parent other
\* than the nearest node
C9_Witness ==
    /\ microState = "REWIRE" /\ Len(nodes) < params.maxIterations
    /\ tempBestParent # null /\ tempBestParent # tempNearestNode

\* C10: from every reachable state and for every draw, draining the iteration
\* by one step() call gives the planner that stepMicro calls repeated until
\* false give; and when the first stepMicro call leaves the iteration open, a
\* step() call issued then gives that same planner, whatever it would draw.
C10_DrainEqualsMicroSteps ==
    [](\A draw \in DrawsOfStep(Tree) :
          LET whole == step(Tree, draw).t
              first == stepMicro(Tree, draw)
          IN  /\ whole = microDrain(Tree, draw)
              /\ first.ret => \A later \in DrawsOfStep(first.t) :
                                   step(first.t, later).t = whole)

\* stepMicro calls have brought an RRT* iteration to CHOOSE_PARENT, and
\* draining it from here appends a node and re-parents an older one
C10_Witness ==
    /\ call = "stepMicro" /\ ret = TRUE /\ microState = "CHOOSE_PARENT"
    /\ LET after == step(Tree, AnyDraw).t.nodes
       IN  /\ Len(after) = Len(nodes) + 1
           /\ \E i \in NodeIds : At(after, i).parentId = Len(nodes)

-----------------------------------------------------------------------------
(* Properties of step(), the drain *)

\* C11: a step() call returns true, the last stepMicro call it made returned
\* false (the iteration was drained to its conclusion), and the node count
\* grew by at most 1 during the call.
C11_StepDrainsIteration ==
    [][call' = "step" =>
          /\ ret' = TRUE
          /\ last' = FALSE
          /\ Len(nodes') \in {Len(nodes), Len(nodes) + 1}]_vars

\* a step() call has drained an RRT* iteration that appended the third node
C11_Witness ==
    /\ call = "step" /\ ret = TRUE /\ last = FALSE
    /\ algorithm = "RRT*" /\ Len(nodes) = 3 /\ microState = "SAMPLE"

\* the micro-states of one iteration: every tag but IDLE
IterationLength == Cardinality(CodeSteps \ {"IDLE"})

\* C12: from every reachable state a step() call makes at most 8 stepMicro
\* calls, and its loop ends because stepMicro returned false, never because
\* of the safety cap.
C12_DrainWithinIteration ==
    [](\A draw \in DrawsOfStep(Tree) :
          LET r == step(Tree, draw)
          IN  r.calls <= IterationLength /\ r.last = FALSE)

\* a step() call has left a planner from which the next drain takes all 8
\* stepMicro calls of an RRT* iteration
C12_Witness ==
    /\ call = "step" /\ algorithm = "RRT*" /\ microState = "SAMPLE"
    /\ Len(nodes) < params.maxIterations
    /\ step(Tree, AnyDraw).calls = IterationLength

-----------------------------------------------------------------------------
(* Scenario: RRT*, no obstacles, 8 stepMicro calls from a fresh SAMPLE state *)

FreshSample == microState = "SAMPLE" /\ ScratchCleared

\* the values of 8 calls that conclude on the 8th only
OnlyLastFalse == [k \in 1..IterationLength |-> k < IterationLength]

-----------------------------------------------------------------------------
(* Properties of single micro-states *)

\* C14: a stepMicro call that runs COLLISION_CHECK on a blocked segment
\* nearest -> candidate returns false, sets the tag to SAMPLE, clears every
\* scratch field and leaves the node list as it was.
C14_BlockedCandidateDiscarded ==
    [][(call' = "stepMicro" /\ Len(nodes) < params.maxIterations
            /\ microState = "COLLISION_CHECK" /\ Blocked) =>
          /\ ret' = FALSE
          /\ microState' = "SAMPLE"
          /\ ScratchCleared'
          /\ nodes' = nodes]_vars

\* COLLISION_CHECK has just discarded a candidate of a tree of three nodes
C14_Witness ==
    /\ call = "stepMicro" /\ ran = "COLLISION_CHECK" /\ ret = FALSE
    /\ obstacles # <<>> /\ Len(nodes) = 3 /\ FreshSample

-----------------------------------------------------------------------------
(* Exact geometry: a segment against a closed rectangle *)

\* twice the signed area of the triangle o, a, b
Cross(o, a, b) == (a.x - o.x) * (b.y - o.y) - (a.y - o.y) * (b.x - o.x)

\* r lies in the bounding box of the segment p, q
InBox(p, q, r) ==
    /\ Min(p.x, q.x) <= r.x /\ r.x <= Max(p.x, q.x)
    /\ Min(p.y, q.y) <= r.y /\ r.y <= Max(p.y, q.y)

\* the closed segments p1 p2 and q1 q2 have a point in common
SegmentsMeet(p1, p2, q1, q2) ==
    LET d1 == Cross(q1, q2, p1)
        d2 == Cross(q1, q2, p2)
        d3 == Cross(p1, p2, q1)
        d4 == Cross(p1, p2, q2)
    IN  \/ /\ (d1 > 0 /\ d2 < 0) \/ (d1 < 0 /\ d2 > 0)
           /\ (d3 > 0 /\ d4 < 0) \/ (d3 < 0 /\ d4 > 0)
        \/ d1 = 0 /\ InBox(q1, q2, p1)
        \/ d2 = 0 /\ InBox(q1, q2, p2)
        \/ d3 = 0 /\ InBox(p1, p2, q1)
        \/ d4 = 0 /\ InBox(p1, p2, q2)

\* the closed segment p1 p2 has a point in common with the closed rectangle
SegmentMeetsRect(p1, p2, x0, y0, x1, y1) ==
    LET a == [x |-> x0, y |-> y0]
        b == [x |-> x1, y |-> y0]
        c == [x |-> x1, y |-> y1]
        d == [x |-> x0, y |-> y1]
    IN  \/ InBox(a, c, p1)
        \/ InBox(a, c, p2)
        \/ SegmentsMeet(p1, p2, a, b)
        \/ SegmentsMeet(p1, p2, b, c)
        \/ SegmentsMeet(p1, p2, c, d)
        \/ SegmentsMeet(p1, p2, d, a)

\* the segment p1 p2 meets obstacle ob, boundary included
MeetsObstacle(p1, p2, ob) ==
    SegmentMeetsRect(p1, p2, ob.x, ob.y, ob.x + ob.w, ob.y + ob.h)

\* C15: every parent-child edge of the tree is free of every obstacle under
\* exact segment-rectangle intersection.
C15_EdgesExactlyCollisionFree ==
    \A i \in NodeIds :
        LET n == At(nodes, i)
        IN  n.parentId # null =>
                \A k \in 1..Len(obstacles) :
                    ~MeetsObstacle(At(nodes, n.parentId), n, obstacles[k])

-----------------------------------------------------------------------------
(* Properties of REWIRE *)

\* a stepMicro call that runs REWIRE (first conjunct primed by the caller)
RunsRewire == Len(nodes) < params.maxIterations /\ microState = "REWIRE"

\* C16 as stated: after a REWIRE every node of the neighbor set costs no more
\* than before, and strictly less only if REWIRE re-parented that very node
\* to the new node.
C16_StrictDecreaseOnlyIfReparented ==
    [][(call' = "stepMicro" /\ RunsRewire) =>
          \A k \in 1..Len(tempNeighbors) :
              LET i == tempNeighbors[k]
              IN  /\ At(nodes', i).cost <= At(nodes, i).cost
                  /\ At(nodes', i).cost < At(nodes, i).cost =>
                         At(nodes', i).parentId = Len(nodes) - 1]_vars

\* C16 amended: ... and strictly less only if REWIRE re-parented that node
\* or one of its ancestors to the new node (the new node is above it
\* afterwards).
C16_StrictDecreaseOnlyBelowNewNode ==
    [][(call' = "stepMicro" /\ RunsRewire) =>
          \A k \in 1..Len(tempNeighbors) :
              LET i == tempNeighbors[k]
              IN  /\ At(nodes', i).cost <= At(nodes, i).cost
                  /\ At(nodes', i).cost < At(nodes, i).cost =>
                         \E j \in 1..Len(nodes) :
                             Ancestor(nodes', i, j) = Len(nodes) - 1]_vars

\* a REWIRE has just lowered the cost of a node of its neighbor set through
\* the cascade alone: the node hangs below a re-parented neighbor
C16_Witness ==
    /\ call = "stepMicro" /\ ran = "REWIRE"
    /\ \E i \in NodeIds :
           /\ Ancestor(nodes, i, 2) = Len(nodes) - 1
           /\ dist(At(nodes, i), At(nodes, Len(nodes) - 1)) <= params.searchRadius

-----------------------------------------------------------------------------
(* Edge lengths *)

\* the length of the edge from node i to its parent
EdgeLength(i) == dist(At(nodes, i), At(nodes, At(nodes, i).parentId))

\* C17 as stated: under RRT and under RRT* every non-root node lies within
\* stepSize of its parent.
C17_EdgesWithinStepSize ==
    \A i \in NodeIds :
        At(nodes, i).parentId # null => EdgeLength(i) <= params.stepSize

\* C17 amended: under RRT every non-root node lies within stepSize of its
\* parent; under RRT* within the larger of stepSize and searchRadius.
C17_EdgesWithinStepSizeOrRadius ==
    \A i \in NodeIds :
        At(nodes, i).parentId # null =>
            EdgeLength(i) <= IF algorithm = "RRT"
                             THEN params.stepSize
                             ELSE Max(params.stepSize, params.searchRadius)

\* an RRT* tree holds an edge longer than stepSize, made by REWIRE
C17_Witness ==
    /\ algorithm = "RRT*"
    /\ \E i \in NodeIds :
           Rewired(At(nodes, i)) /\ EdgeLength(i) > params.stepSize

-----------------------------------------------------------------------------
(* The node store *)

\* C18: construction yields the single node 0 at the start point with cost
\* 0, no parent and no children, tag SAMPLE and empty scratch; and in every
\* reachable state node 0 has no parent, cost 0 and the start coordinates,
\* and no other node is without parent.
C18_RootSeededAndKept ==
    /\ call = "new" =>
           /\ nodes = <<[id |-> 0, x |-> Start.x, y |-> Start.y, parentId |-> null,
                         cost |-> 0, children |-> <<>>]>>
           /\ FreshSample
    /\ At(nodes, 0).parentId = null
    /\ At(nodes, 0).cost = 0
    /\ At(nodes, 0).x = Start.x /\ At(nodes, 0).y = Start.y
    /\ \A i \in NodeIds : At(nodes, i).parentId = null => i = 0

\* a REWIRE has just run with the root in its neighbor set and not as the new
\* node's parent, so that the root was a candidate for re-parenting
C18_Witness ==
    /\ call = "stepMicro" /\ ran = "REWIRE"
    /\ At(nodes, Len(nodes) - 1).parentId # 0
    /\ dist(At(nodes, 0), At(nodes, Len(nodes) - 1)) <= params.searchRadius

\* the children sequence old, or old with one id appended
GrownBy(old, new, id) == new = old \/ new = Append(old, id)

\* C19 as stated: the node count never decreases, ids equal indexes, the id
\* and coordinates of an existing node never change, and under RRT an
\* existing node does not change at all (parentId, cost and children change
\* only in RRT*).
C19_AppendOnlyFrozenUnderRRT ==
    /\ [](\A i \in NodeIds : At(nodes, i).id = i)
    /\ [][/\ Len(nodes') >= Len(nodes)
          /\ \A i \in NodeIds :
                 /\ At(nodes', i).id = At(nodes, i).id
                 /\ At(nodes', i).x = At(nodes, i).x
                 /\ At(nodes', i).y = At(nodes, i).y
                 /\ algorithm = "RRT" => At(nodes', i) = At(nodes, i)]_vars

\* C19 amended: ... and under RRT the parentId and cost of an existing node
\* never change, and its children change only by the id of a newly appended
\* node being pushed.
C19_AppendOnly ==
    /\ [](\A i \in NodeIds : At(nodes, i).id = i)
    /\ [][/\ Len(nodes') >= Len(nodes)
          /\ \A i \in NodeIds :
                 /\ At(nodes', i).id = At(nodes, i).id
                 /\ At(nodes', i).x = At(nodes, i).x
                 /\ At(nodes', i).y = At(nodes, i).y
                 /\ algorithm = "RRT" =>
                        /\ At(nodes', i).parentId = At(nodes, i).parentId
                        /\ At(nodes', i).cost = At(nodes, i).cost
                        /\ GrownBy(At(nodes, i).children, At(nodes', i).children,
                                   Len(nodes))]_vars

\* under RRT a node has been given its second child
C19_Witness ==
    /\ algorithm = "RRT" /\ Len(nodes) >= 4
    /\ \E i \in NodeIds : Len(At(nodes, i).children) >= 2

-----------------------------------------------------------------------------
(* getPath *)

\* getPath: the ids i, in index order, of the nodes within 1.5 x stepSize of
\* the goal (dist <= stepSize * 1.5, multiplied through by 2)
\* the scan with the bound of the band left out
RECURSIVE candidateScanStrict(_, _, _)
candidateScanStrict(ns, stepSize, i) ==
    IF i >= Len(ns) THEN <<>>
    ELSE IF 2 * dist(At(ns, i), Goal) < 3 * stepSize
    THEN <<i>> \o candidateScanStrict(ns, stepSize, i + 1)
    ELSE candidateScanStrict(ns, stepSize, i + 1)

RECURSIVE candidateScan(_, _, _)
candidateScan(ns, stepSize, i) ==
    IF i >= Len(ns) THEN <<>>
    ELSE IF 2 * dist(At(ns, i), Goal) <= 3 * stepSize
    THEN <<i>> \o candidateScan(ns, stepSize, i + 1)
    ELSE candidateScan(ns, stepSize, i + 1)

\* the sort with its comparator reversed: a candidate of greatest cost
costliest(ns, candidates) ==
    LET Worst(k) == \A j \in 1..Len(candidates) :
                        \/ At(ns, candidates[k]).cost > At(ns, candidates[j]).cost
                        \/ At(ns, candidates[k]).cost = At(ns, candidates[j]).cost /\ k <= j
    IN  candidates[CHOOSE k \in 1..Len(candidates) : Worst(k)]

\* candidates[candidates.length - 1] without the sort: the candidate added last
newest(ns, candidates) == candidates[Len(candidates)]

\* candidates.sort by cost, then candidates[0]: a candidate of least cost,
\* the earliest of them in the scan (the sort is stable)
cheapest(ns, candidates) ==
    LET Best(k) == \A j \in 1..Len(candidates) :
                       \/ At(ns, candidates[k]).cost < At(ns, candidates[j]).cost
                       \/ At(ns, candidates[k]).cost = At(ns, candidates[j]).cost /\ k <= j
    IN  candidates[CHOOSE k \in 1..Len(candidates) : Best(k)]

\* the while loop pushing curr and moving to its parent, then reverse()
RECURSIVE backtrace(_, _)
backtrace(ns, curr) ==
    IF curr = null THEN <<>> ELSE Append(backtrace(ns, At(ns, curr).parentId), curr)

getPath(t) ==
    LET candidates == candidateScan(t.nodes, t.params.stepSize, 0)
    IN  IF Len(candidates) = 0
        THEN <<>>
        ELSE backtrace(t.nodes, cheapest(t.nodes, candidates))

\* C20: a non-empty getPath result starts at the root id 0, ends at a node
\* within 1.5 x stepSize of the goal whose cost is least among all such
\* nodes, and every later element has the element before it as parentId.
C20_PathRootToCheapestCandidate ==
    LET path == getPath(Tree)
        InBand(i) == 2 * dist(At(nodes, i), Goal) <= 3 * params.stepSize
    IN  path # <<>> =>
            /\ path[1] = 0
            /\ path[Len(path)] \in NodeIds
            /\ InBand(path[Len(path)])
            /\ \A i \in NodeIds :
                   InBand(i) => At(nodes, path[Len(path)]).cost <= At(nodes, i).cost
            /\ \A k \in 2..Len(path) : At(nodes, path[k]).parentId = path[k - 1]

\* the tree has reached the goal band with two nodes of different cost, and
\* the path to the cheaper one is three edges long
C20_Witness ==
    LET path == getPath(Tree)
    IN  /\ Len(path) >= 4
        /\ \E i \in NodeIds :
               /\ 2 * dist(At(nodes, i), Goal) <= 3 * params.stepSize
               /\ At(nodes, i).cost > At(nodes, path[Len(path)]).cost

\* node i lies in the band around the goal that getPath scans for, bound included
NearGoal(i) == 2 * dist(At(nodes, i), Goal) <= 3 * params.stepSize

\* C21: getPath returns the empty sequence exactly when no node lies within
\* 1.5 x stepSize of the goal (bound included); and it ends without an error:
\* when there is a candidate, the walk from the cheapest one along parentId
\* meets only ids of the store and comes to the root's null parent within
\* Len(nodes) links, so the result is no longer than the node list.
C21_EmptyIffNoCandidate ==
    LET candidates == candidateScan(nodes, params.stepSize, 0)
    IN  /\ getPath(Tree) = <<>> <=> \A i \in NodeIds : ~NearGoal(i)
        /\ candidates # <<>> =>
               LET from == cheapest(nodes, candidates)
               IN  /\ from \in NodeIds
                   /\ \E k \in 1..Len(nodes) :
                          /\ Ancestor(nodes, from, k) = null
                          /\ \A j \in 0..(k - 1) : Ancestor(nodes, from, j) \in NodeIds
                   /\ Len(getPath(Tree)) <= Len(nodes)

\* the only node in the band lies on its bound, dist = 1.5 x stepSize, and
\* getPath returns the path to it
C21_Witness ==
    /\ \E i \in NodeIds :
           /\ 2 * dist(At(nodes, i), Goal) = 3 * params.stepSize
           /\ \A j \in NodeIds : NearGoal(j) => j = i
    /\ getPath(Tree) # <<>>

-----------------------------------------------------------------------------
(* getPath as a call of the caller's *)

\* a getPath call that clears the scratch fields on its way
getPathCallResets(t) == [t |-> resetTemp(t), ret |-> getPath(t)]

\* a getPath call: the planner it leaves and the value it returns.  The body
\* assigns to no field of the planner; sort() and reverse() work in place on
\* the arrays candidates and path, which the call has made itself.
getPathCall(t) == [t |-> t, ret |-> getPath(t)]

\* largest params.maxIterations of the planners that are queried
QueryIterations == 4

GetPath ==
    LET r == getPathCall(Tree)
    IN  /\ Install(r.t)
        /\ call' = "getPath"
        /\ ret' = r.ret
        /\ ran' = "none"
        /\ last' = last
        /\ driver' = driver

QueryInit == Init /\ params.maxIterations <= QueryIterations

QueryNext == StepMicro \/ Step \/ GetPath

\* the caller advances the planner and queries the path in any order
QuerySpec == QueryInit /\ [][QueryNext]_vars

\* C22: a getPath call leaves the node list, the tag and every scratch field
\* as they were, and a getPath call that follows a getPath call with no
\* advance between them returns the same sequence.
C22_GetPathIsPureQuery ==
    [][call' = "getPath" =>
          /\ UNCHANGED <<nodes, microState, tempSample, tempNearestNode,
                         tempNewPoint, tempNeighbors, tempBestParent>>
          /\ call = "getPath" => ret' = ret]_vars

\* getPath has returned a path in the middle of an RRT* iteration, with the
\* scratch fields in use
C22_Witness ==
    /\ call = "getPath" /\ Len(ret) >= 3
    /\ algorithm = "RRT*" /\ microState = "REWIRE"
    /\ tempNewPoint # nullPoint /\ tempNeighbors # <<>>

-----------------------------------------------------------------------------
(* Scenario: one obstacle spanning the full height between start and goal *)

\* a wall thinner than the 5-pixel spacing of the collision samples
ThinWall == [x |-> 15, y |-> 0, w |-> 1, h |-> Height]
\* a wall wider than the spacing, nearer to the goal than 1.5 x stepSize
NearWall == [x |-> 20, y |-> 0, w |-> 6, h |-> Height]
\* a wall wider than the spacing, farther from the goal than 1.5 x stepSize
FarWall == [x |-> 6, y |-> 0, w |-> 6, h |-> Height]
WallSets == {<<ThinWall>>, <<NearWall>>, <<FarWall>>}

\* the state right after new RRTTree(...) has returned planner t
Constructed(t) ==
    /\ nodes = t.nodes
    /\ microState = t.microState
    /\ tempSample = t.tempSample
    /\ tempNearestNode = t.tempNearestNode
    /\ tempNewPoint = t.tempNewPoint
    /\ tempNeighbors = t.tempNeighbors
    /\ tempBestParent = t.tempBestParent
    /\ algorithm = t.algorithm
    /\ obstacles = t.obstacles
    /\ params = t.params
    /\ call = "new"
    /\ ret = TRUE
    /\ ran = "none"
    /\ last = TRUE
    /\ driver = DriverOf(t)

WallInit ==
    \E alg \in AlgorithmTypes, obs \in WallSets, ps \in ParamsSet :
        Constructed(constructor(Start, obs, ps, alg))

WallSpec == WallInit /\ [][Next]_vars

\* obs is a single rectangle that spans the height of the bounds and lies
\* between the start and the goal
FullHeightWall(obs) ==
    /\ Len(obs) = 1
    /\ obs[1].w > 0
    /\ obs[1].y <= 0 /\ obs[1].y + obs[1].h >= Height
    /\ Start.x < obs[1].x /\ obs[1].x + obs[1].w < Goal.x

\* C23: with a single obstacle that spans the full height of the bounds
\* between start and goal, whatever its positive width, getPath returns the
\* empty sequence in every reachable state, under RRT and under RRT*.
C23_WallKeepsPathEmpty ==
    FullHeightWall(obstacles) => getPath(Tree) = <<>>

-----------------------------------------------------------------------------
(* Scenario: no obstacles, the cost of the path found *)

\* the sum of the lengths of the edges path[k - 1] -> path[k], from the k-th
\* element of path on
RECURSIVE PathLength(_, _, _)
PathLength(ns, path, k) ==
    IF k > Len(path) THEN 0
    ELSE dist(At(ns, path[k - 1]), At(ns, path[k])) + PathLength(ns, path, k + 1)

\* the cost of the final node of path
PathCost(ns, path) == At(ns, path[Len(path)]).cost

\* C24 as stated: with no obstacles, whenever getPath is non-empty the cost
\* of the path's final node is at least the straight-line distance from start
\* to goal, and at most the sum of the lengths of the path's edges.
C24_CostAtLeastStraightLine ==
    LET path == getPath(Tree)
    IN  (obstacles = <<>> /\ path # <<>>) =>
            /\ PathCost(nodes, path) >= dist(Start, Goal)
            /\ PathCost(nodes, path) <= PathLength(nodes, path, 2)

\* C24 amended: ... the cost of the path's final node is at least the
\* straight-line distance from start to goal less the 1.5 x stepSize that the
\* final node may be short of the goal, and at most the sum of the lengths of
\* the path's edges.  (dist rounds every edge down by less than one pixel, so
\* the cost of a path of n edges is short of its real length by less than n.)
C24_CostAtLeastStraightLineLessBand ==
    LET path == getPath(Tree)
    IN  (obstacles = <<>> /\ path # <<>>) =>
            /\ 2 * (PathCost(nodes, path) + Len(path) - 1) >=
                   2 * dist(Start, Goal) - 3 * params.stepSize
            /\ PathCost(nodes, path) <= PathLength(nodes, path, 2)

\* with no obstacles getPath returns a path over a re-parented node whose
\* cost is below the straight-line distance from start to goal
C24_Witness ==
    LET path == getPath(Tree)
    IN  /\ obstacles = <<>> /\ Len(path) >= 3
        /\ PathCost(nodes, path) < dist(Start, Goal)
        /\ \E k \in 1..Len(path) : Rewired(At(nodes, path[k]))

-----------------------------------------------------------------------------
(* Scenario: goalBias at the ends of its range *)

\* goalBias = 0 and goalBias = 1, in hundredths
BiasValues == {0, RandScale}

\* the least and the greatest value of Math.random(), in hundredths
EdgeRandomValues == {0, RandScale - 1}

EdgeDraws == [r : EdgeRandomValues, rx : EdgeRandomValues, ry : EdgeRandomValues]

\* the points samplePoint returns for these draws
EdgeSamples == {samplePoint(Width, Height, d) : d \in EdgeDraws}

\* largest params.maxIterations of the planners built with these goalBias values
BiasIterations == 4

BiasParamsSet == [stepSize : {StepSizeValue}, maxIterations : 1..BiasIterations,
                  goalBias : BiasValues, searchRadius : {SearchRadiusValue}]

BiasInit ==
    \E alg \in AlgorithmTypes, obs \in ObstacleSets, ps \in BiasParamsSet :
        Constructed(constructor(Start, obs, ps, alg))

\* the draws one call can read, as SampleDraws, from EdgeDraws
EdgeSampleDraws(t) ==
    {d \in EdgeDraws : d.r < t.params.goalBias => (d.rx = 0 /\ d.ry = 0)}

BiasStepMicro ==
    \E draw \in (IF ~Saturated(Tree) /\ microState = "SAMPLE"
                 THEN EdgeSampleDraws(Tree) ELSE {AnyDraw}) :
        LET r == stepMicro(Tree, draw)
        IN  /\ Install(r.t)
            /\ call' = "stepMicro"
            /\ ret' = r.ret
            /\ ran' = IF Saturated(Tree) THEN "none" ELSE microState
            /\ last' = r.ret
            /\ driver' = driver

BiasStep ==
    \E draw \in (IF DrawsOfStep(Tree) = {AnyDraw}
                 THEN {AnyDraw} ELSE EdgeSampleDraws(Tree)) :
        LET r == step(Tree, draw)
        IN  /\ Install(r.t)
            /\ call' = "step"
            /\ ret' = r.ret
            /\ ran' = "none"
            /\ last' = r.last
            /\ driver' = driver

BiasNext == BiasStepMicro \/ BiasStep

BiasSpec == BiasInit /\ [][BiasNext]_vars

\* C25: a stepMicro call that runs SAMPLE with goalBias = 0 stores a uniform
\* draw within the bounds and never takes the goal branch (no such draw is
\* the goal here), whatever Math.random() returns, 0 included; with
\* goalBias = 1 it stores the goal point.
C25_BiasZeroNeverOneAlways ==
    [][(call' = "stepMicro" /\ ran' = "SAMPLE") =>
          /\ microState' = "NEAREST"
          /\ params.goalBias = 0 =>
                 /\ tempSample' \in EdgeSamples
                 /\ tempSample' # Goal
                 /\ tempSample'.x >= 0 /\ tempSample'.x < Width
                 /\ tempSample'.y >= 0 /\ tempSample'.y < Height
          /\ params.goalBias = RandScale => tempSample' = Goal]_vars

\* with goalBias = 0 SAMPLE has run on a tree of three nodes and stored the
\* corner of the bounds that the least draws give
C25_Witness ==
    /\ params.goalBias = 0 /\ call = "stepMicro" /\ ran = "SAMPLE"
    /\ Len(nodes) = 3 /\ tempSample = [x |-> 0, y |-> 0]

-----------------------------------------------------------------------------
(* The driver: the App component holding the planner in treeRef *)

\* the planner variables while treeRef.current is null
NoPlanner ==
    [nodes |-> <<>>, microState |-> "SAMPLE", tempSample |-> nullPoint,
     tempNearestNode |-> null, tempNewPoint |-> nullPoint, tempNeighbors |-> <<>>,
     tempBestParent |-> null, algorithm |-> "RRT", obstacles |-> <<>>,
     params |-> [stepSize |-> 0, maxIterations |-> 0, goalBias |-> 0,
                 searchRadius |-> 0]]

\* the values the sliders, the buttons and the canvas can set
StepSizes == {StepSizeValue, StepSizeValue \div 2}
IterationCaps == {2, 3}
GoalBiases == {GoalBiasValue, 0}
SearchRadii == {SearchRadiusValue, StepSizeValue}
Starts == {Start, [x |-> Start.x, y |-> Height \div 2]}
Goals == {Goal}

\* const params = { stepSize, maxIterations, goalBias, searchRadius }
DriverParams ==
    [stepSize |-> driver.stepSize, maxIterations |-> driver.maxIterations,
     goalBias |-> driver.goalBias, searchRadius |-> driver.searchRadius]

DriverInit ==
    /\ driver = [tree |-> FALSE, start |-> Start, goal |-> Goal, obstacles |-> Block,
                 algorithm |-> "RRT", stepSize |-> StepSizeValue, maxIterations |-> 2,
                 goalBias |-> GoalBiasValue, searchRadius |-> SearchRadiusValue]
    /\ nodes = NoPlanner.nodes
    /\ microState = NoPlanner.microState
    /\ tempSample = NoPlanner.tempSample
    /\ tempNearestNode = NoPlanner.tempNearestNode
    /\ tempNewPoint = NoPlanner.tempNewPoint
    /\ tempNeighbors = NoPlanner.tempNeighbors
    /\ tempBestParent = NoPlanner.tempBestParent
    /\ algorithm = NoPlanner.algorithm
    /\ obstacles = NoPlanner.obstacles
    /\ params = NoPlanner.params
    /\ call = "mount"
    /\ ret = TRUE
    /\ ran = "none"
    /\ last = TRUE

\* resetSimulation: treeRef.current = null
resetSimulation ==
    /\ Install(NoPlanner)
    /\ ret' = TRUE
    /\ ran' = "none"
    /\ last' = TRUE

\* a set-state call that leaves the driver as d, and the effect that follows
\* the render: resetSimulation when a dependency of the effect has changed.
\* The dependencies are algorithm, stepSize, goalBias, searchRadius,
\* obstacles, start and goal; numbers and strings are compared by value,
\* arrays and points by identity.
SetState(d, dependencyChanged) ==
    /\ call' = "set"
    /\ IF dependencyChanged
       THEN /\ driver' = [d EXCEPT !.tree = FALSE]
            /\ resetSimulation
       ELSE /\ driver' = d
            /\ UNCHANGED <<nodes, microState, tempSample, tempNearestNode,
                           tempNewPoint, tempNeighbors, tempBestParent, algorithm,
                           obstacles, params, ret, ran, last>>

SetAlgorithm ==
    \E v \in AlgorithmTypes :
        SetState([driver EXCEPT !.algorithm = v], v # driver.algorithm)

SetStepSize ==
    \E v \in StepSizes : SetState([driver EXCEPT !.stepSize = v], v # driver.stepSize)

SetMaxIterations ==
    \E v \in IterationCaps : SetState([driver EXCEPT !.maxIterations = v], FALSE)

SetGoalBias ==
    \E v \in GoalBiases : SetState([driver EXCEPT !.goalBias = v], v # driver.goalBias)

SetSearchRadius ==
    \E v \in SearchRadii :
        SetState([driver EXCEPT !.searchRadius = v], v # driver.searchRadius)

\* setObstacles is always handed an array made for the call
SetObstacles ==
    \E v \in ObstacleSets : SetState([driver EXCEPT !.obstacles = v], TRUE)

\* onStartMove and onGoalMove are handed a point made for the call
SetStart == \E v \in Starts : SetState([driver EXCEPT !.start = v], TRUE)

SetGoal == \E v \in Goals : SetState([driver EXCEPT !.goal = v], TRUE)

\* the Reset button
ResetButton ==
    /\ call' = "reset"
    /\ driver' = [driver EXCEPT !.tree = FALSE]
    /\ resetSimulation

\* initTree: the planner in treeRef, built now if there is none
initTree ==
    IF driver.tree THEN Tree
    ELSE constructor(driver.start, driver.obstacles, DriverParams, driver.algorithm)

\* the Step button is disabled: the node list shown has reached the driver's
\* maxIterations, or a path has been found under RRT
StepDisabled ==
    /\ driver.tree
    /\ \/ Len(nodes) >= driver.maxIterations
       \/ driver.algorithm = "RRT" /\ getPath(Tree) # <<>>

\* handleStep with the simulation paused: one stepMicro call when the code
\* view is open, one step() call otherwise
HandleStep ==
    \E isCodeOpen \in BOOLEAN :
        LET tree == initTree
        IN  ~StepDisabled /\ \E draw \in (IF isCodeOpen THEN DrawsOfStepMicro(tree) ELSE DrawsOfStep(tree)) :
                LET r == IF isCodeOpen
                         THEN stepMicro(tree, draw)
                         ELSE [t |-> step(tree, draw).t, ret |-> step(tree, draw).last]
                IN  /\ Install(r.t)
                    /\ driver' = [driver EXCEPT !.tree = TRUE]
                    /\ call' = "handleStep"
                    /\ ret' = TRUE
                    /\ ran' = "none"
                    /\ last' = r.ret

DriverNext ==
    \/ SetAlgorithm
    \/ SetStepSize
    \/ SetMaxIterations
    \/ SetGoalBias
    \/ SetSearchRadius
    \/ SetObstacles
    \/ SetStart
    \/ SetGoal
    \/ ResetButton
    \/ HandleStep

DriverSpec == DriverInit /\ [][DriverNext]_vars

\* the driver's values apart from whether it holds a planner
Settings(d) == [d EXCEPT !.tree = FALSE]

\* C26: whenever the driver holds a planner, the planner's start, goal,
\* obstacles, variant and params are the driver's current values; and a step
\* that changes one of the driver's values leaves the driver without a
\* planner, so that the next advance builds a fresh one.
C26_PlannerMatchesDriver ==
    /\ [](driver.tree =>
              /\ At(nodes, 0).x = driver.start.x /\ At(nodes, 0).y = driver.start.y
              /\ driver.goal = Goal
              /\ obstacles = driver.obstacles
              /\ algorithm = driver.algorithm
              /\ params = DriverParams)
    /\ [][Settings(driver') # Settings(driver) => ~driver'.tree]_vars

-----------------------------------------------------------------------------
(* Scratch fields lost between two calls *)

\* the scratch fields that can hold null
NullableScratch == {"tempSample", "tempNearestNode", "tempNewPoint", "tempBestParent"}

\* largest params.maxIterations of the planners whose scratch is tampered with
CorruptIterations == 3

\* something outside the planner sets one of its scratch fields to null
Corrupt ==
    \E field \in NullableScratch :
        /\ \/ field = "tempSample" /\ tempSample # nullPoint
           \/ field = "tempNearestNode" /\ tempNearestNode # null
           \/ field = "tempNewPoint" /\ tempNewPoint # nullPoint
           \/ field = "tempBestParent" /\ tempBestParent # null
        /\ tempSample' = IF field = "tempSample" THEN nullPoint ELSE tempSample
        /\ tempNearestNode' = IF field = "tempNearestNode" THEN null ELSE tempNearestNode
        /\ tempNewPoint' = IF field = "tempNewPoint" THEN nullPoint ELSE tempNewPoint
        /\ tempBestParent' = IF field = "tempBestParent" THEN null ELSE tempBestParent
        /\ call' = "corrupt"
        /\ UNCHANGED <<nodes, microState, tempNeighbors, algorithm, obstacles, params,
                       ret, ran, last, driver>>

CorruptInit == Init /\ params.maxIterations <= CorruptIterations

CorruptNext == StepMicro \/ Corrupt

CorruptSpec == CorruptInit /\ [][CorruptNext]_vars

\* a scratch field that the case of the current tag reads is null
RequiredScratchMissing ==
    \/ microState = "NEAREST" /\ tempSample = nullPoint
    \/ microState = "STEER" /\ (tempNearestNode = null \/ tempSample = nullPoint)
    \/ microState = "COLLISION_CHECK" /\ (tempNearestNode = null \/ tempNewPoint = nullPoint)
    \/ microState = "NEIGHBORS" /\ tempNewPoint = nullPoint
    \/ microState = "CHOOSE_PARENT" /\ (tempNewPoint = nullPoint \/ tempNearestNode = null)
    \/ microState = "ADD_NODE" /\ (tempNewPoint = nullPoint \/ tempNearestNode = null)
    \/ microState = "REWIRE" /\ tempNewPoint = nullPoint

\* C27: a stepMicro call made while a scratch field that the current tag
\* needs is null sets the tag to SAMPLE and leaves the node list as it was,
\* for every tag from NEAREST to REWIRE and every such field, a null nearest
\* node at ADD_NODE included.
C27_MissingScratchResets ==
    [][(call' = "stepMicro" /\ Len(nodes) < params.maxIterations
            /\ RequiredScratchMissing) =>
          (microState' = "SAMPLE" /\ nodes' = nodes)]_vars

-----------------------------------------------------------------------------
(* Scenario: the empty obstacle set *)

\* n step() calls in a row, each SAMPLE reading the same draw
RECURSIVE stepTimes(_, _, _)
stepTimes(t, draw, n) ==
    IF n = 0 THEN t ELSE stepTimes(step(t, draw).t, draw, n - 1)

\* the points between which the planner tests segments: the nodes and the
\* candidate point
TestedPoints ==
    {[x |-> At(nodes, i).x, y |-> At(nodes, i).y] : i \in NodeIds}
        \cup (IF tempNewPoint = nullPoint THEN {} ELSE {tempNewPoint})

\* C28: with an empty obstacle set checkCollision is false for every
\* segment; COLLISION_CHECK never discards a candidate, and a step() call
\* that starts an iteration on an unsaturated planner, or ends one that is
\* under way, leaves exactly one node more than the iteration began with; so
\* a new planner is saturated after exactly maxIterations - 1 step() calls
\* and not before.
C28_NoObstaclesOneNodePerIteration ==
    /\ [](obstacles = <<>> =>
              /\ \A p1 \in TestedPoints, p2 \in TestedPoints :
                     ~checkCollision(p1, p2, obstacles)
              /\ call = "new" =>
                     \A draw \in Draws, n \in 0..MaxIterations :
                         LET t == stepTimes(Tree, draw, n)
                         IN  /\ Len(t.nodes) = Min(n + 1, params.maxIterations)
                             /\ Saturated(t) <=> n >= params.maxIterations - 1)
    /\ [][(obstacles = <<>> /\ Len(nodes) < params.maxIterations) =>
              /\ (call' = "stepMicro" /\ microState = "COLLISION_CHECK") =>
                     (ret' = TRUE /\ microState' # "SAMPLE")
              /\ (call' = "step" /\ microState \in {"SAMPLE", "NEAREST", "STEER",
                        "COLLISION_CHECK", "NEIGHBORS", "CHOOSE_PARENT", "ADD_NODE"}) =>
                     Len(nodes') = Len(nodes) + 1
              /\ (call' = "step" /\ microState = "REWIRE") =>
                     Len(nodes') = Len(nodes)]_vars

\* with no obstacles step() calls have filled an RRT* planner of the largest
\* maxIterations
C28_Witness ==
    /\ obstacles = <<>> /\ call = "step" /\ algorithm = "RRT*"
    /\ params.maxIterations = MaxIterations
    /\ Len(nodes) = params.maxIterations

-----------------------------------------------------------------------------
(* REWIRE of the last node *)

\* C29: under RRT* an iteration that appended a node is not reported as
\* concluded (no stepMicro call returns false, directly or inside step())
\* before REWIRE has run for that node: the tag does not stand at REWIRE
\* after a call that returned false.  This covers the node whose insertion
\* brings the node count to maxIterations.
C29_AppendedNodeIsRewired ==
    (algorithm = "RRT*" /\ call \in {"stepMicro", "step"} /\ last = FALSE) =>
        microState # "REWIRE"

-----------------------------------------------------------------------------
(* CHOOSE_PARENT *)

\* the cost of the candidate point when attached below node i
CostThrough(i) == At(nodes, i).cost + dist(At(nodes, i), tempNewPoint)

\* the nodes CHOOSE_PARENT may attach the candidate to: the nearest node, and
\* the neighbors whose segment to the candidate passes the collision test
Eligible ==
    {tempNearestNode} \cup
        {i \in NodeIds : /\ InSeq(i, tempNeighbors)
                         /\ ~checkCollision(At(nodes, i), tempNewPoint, obstacles)}

\* C30: a stepMicro call that runs CHOOSE_PARENT stores as tempBestParent the
\* nearest node or a neighbor whose segment to the candidate passes the
\* collision test; its cost-through is least among the nearest node and all
\* such neighbors; when the nearest node attains that least value it is the
\* one stored, and otherwise the neighbor of lowest index that attains it.
C30_CheapestEligibleParent ==
    [][(call' = "stepMicro" /\ Len(nodes) < params.maxIterations
            /\ microState = "CHOOSE_PARENT") =>
          LET best == tempBestParent'
          IN  /\ best \in Eligible
              /\ \A i \in Eligible : CostThrough(best) <= CostThrough(i)
              /\ CostThrough(tempNearestNode) = CostThrough(best) => best = tempNearestNode
              /\ \A i \in Eligible : CostThrough(i) = CostThrough(best) =>
                     (best = tempNearestNode \/ best <= i)
              /\ microState' = "ADD_NODE"
              /\ nodes' = nodes]_vars

\* CHOOSE_PARENT has just passed over a neighbor whose cost-through is lower
\* than that of the parent it stored, because the neighbor's segment to the
\* candidate is blocked
C30_Witness ==
    /\ call = "stepMicro" /\ ran = "CHOOSE_PARENT" /\ microState = "ADD_NODE"
    /\ \E i \in NodeIds :
           /\ InSeq(i, tempNeighbors)
           /\ CostThrough(i) < CostThrough(tempBestParent)
           /\ checkCollision(At(nodes, i), tempNewPoint, obstacles)

-----------------------------------------------------------------------------
(* What REWIRE touches *)

\* node a is a proper ancestor of node i in the node list ns
IsAncestor(ns, a, i) == \E k \in 1..Len(ns) : Ancestor(ns, i, k) = a

\* the nodes whose parentId the step from the current state changes
Reparented == {i \in NodeIds : At(nodes', i).parentId # At(nodes, i).parentId}

\* C31: a stepMicro call that runs REWIRE re-parents only nodes of the
\* neighbor set collected at NEIGHBORS, and each of them to the new node;
\* never the new node's chosen parent and never an ancestor of the new node.
\* A node that is neither re-parented nor a descendant of a re-parented
\* neighbor keeps its parentId and cost.  Every re-parented neighbor is
\* removed from its old parent's children and added to the new node's
\* children.
C31_RewireTouchesNeighborsOnly ==
    [][(call' = "stepMicro" /\ RunsRewire) =>
          LET newNodeId == Len(nodes) - 1
          IN  /\ Len(nodes') = Len(nodes)
              /\ \A i \in Reparented :
                     /\ InSeq(i, tempNeighbors)
                     /\ At(nodes', i).parentId = newNodeId
                     /\ i # At(nodes, newNodeId).parentId
                     /\ ~IsAncestor(nodes, i, newNodeId)
                     /\ ~InSeq(i, At(nodes', At(nodes, i).parentId).children)
                     /\ InSeq(i, At(nodes', newNodeId).children)
              /\ \A i \in NodeIds :
                     (i \notin Reparented
                          /\ \A r \in Reparented : ~IsAncestor(nodes', r, i)) =>
                         /\ At(nodes', i).parentId = At(nodes, i).parentId
                         /\ At(nodes', i).cost = At(nodes, i).cost]_vars

\* REWIRE has just re-parented a neighbor that has a child of its own (the
\* cascade ran), while another node of the neighbor set that is not the new
\* node's parent was left under its old parent
C31_Witness ==
    /\ call = "stepMicro" /\ ran = "REWIRE"
    /\ LET newNodeId == Len(nodes) - 1
       IN  /\ \E i \in NodeIds :
                  /\ At(nodes, i).parentId = newNodeId
                  /\ At(nodes, i).children # <<>>
           /\ \E a \in NodeIds \ {newNodeId} :
                  /\ At(nodes, a).parentId # newNodeId
                  /\ a # At(nodes, newNodeId).parentId
                  /\ dist(At(nodes, a), At(nodes, newNodeId)) <= params.searchRadius

-----------------------------------------------------------------------------
(* NEAREST *)

\* C32: a stepMicro call that runs NEAREST stores a node whose distance to
\* the sample is least over all existing nodes, and of the nodes at that
\* least distance the one with the lowest index.
C32_NearestIsFirstMinimum ==
    [][(call' = "stepMicro" /\ Len(nodes) < params.maxIterations
            /\ microState = "NEAREST") =>
          LET nearest == tempNearestNode'
          IN  /\ nearest \in NodeIds
              /\ \A i \in NodeIds :
                     /\ dist(At(nodes, nearest), tempSample)
                            <= dist(At(nodes, i), tempSample)
                     /\ dist(At(nodes, i), tempSample)
                            = dist(At(nodes, nearest), tempSample) => nearest <= i
              /\ microState' = "STEER"
              /\ nodes' = nodes /\ tempSample' = tempSample]_vars

\* NEAREST has just stored a node of index above 0 while a node of higher
\* index lies at the same distance from the sample
C32_Witness ==
    /\ call = "stepMicro" /\ ran = "NEAREST" /\ microState = "STEER"
    /\ tempNearestNode > 0
    /\ \E i \in NodeIds :
           /\ i > tempNearestNode
           /\ dist(At(nodes, i), tempSample) = dist(At(nodes, tempNearestNode), tempSample)

-----------------------------------------------------------------------------
(* NEIGHBORS *)

\* largest params.maxIterations of the planners below
RadiusIterations == 4

\* a searchRadius below stepSize
SmallRadius == StepSizeValue - 2

RadiusParamsSet == [stepSize : {StepSizeValue}, maxIterations : 1..RadiusIterations,
                    goalBias : {GoalBiasValue},
                    searchRadius : {SearchRadiusValue, SmallRadius}]

RadiusInit ==
    \E alg \in AlgorithmTypes, obs \in ObstacleSets, ps \in RadiusParamsSet :
        Constructed(constructor(Start, obs, ps, alg))

RadiusSpec == RadiusInit /\ [][Next]_vars

\* C33: a stepMicro call that runs NEIGHBORS leaves in tempNeighbors exactly
\* the indices of the existing nodes with dist(node, candidate) <=
\* searchRadius, the boundary included, in ascending order; the candidate is
\* not yet a node and is not among them.  (That the nearest node may be
\* missing when searchRadius < stepSize is the case of C33_Witness.)
C33_NeighborsExactlyWithinRadius ==
    [][(call' = "stepMicro" /\ Len(nodes) < params.maxIterations
            /\ microState = "NEIGHBORS") =>
          /\ \A k \in 1..Len(tempNeighbors') :
                 /\ tempNeighbors'[k] \in NodeIds
                 /\ k > 1 => tempNeighbors'[k - 1] < tempNeighbors'[k]
          /\ \A i \in NodeIds :
                 InSeq(i, tempNeighbors') <=>
                     dist(At(nodes, i), tempNewPoint) <= params.searchRadius
          /\ microState' = "CHOOSE_PARENT"
          /\ nodes' = nodes /\ tempNewPoint' = tempNewPoint]_vars

\* NEIGHBORS has just run with searchRadius < stepSize, and the nearest
\* node, lying farther than searchRadius from the candidate, is not in the
\* set it collected
C33_Witness ==
    /\ call = "stepMicro" /\ ran = "NEIGHBORS" /\ microState = "CHOOSE_PARENT"
    /\ params.searchRadius < params.stepSize
    /\ dist(At(nodes, tempNearestNode), tempNewPoint) > params.searchRadius
    /\ ~InSeq(tempNearestNode, tempNeighbors)

-----------------------------------------------------------------------------
(* Costs over time *)

\* C36: no stepMicro call and no step() call raises the cost of a node: for
\* every node present before the call, its cost afterwards is at most its
\* cost before, the descendants whose cost a rewire cascades to included.
C36_CostNeverIncreases ==
    [][\A i \in NodeIds : At(nodes', i).cost <= At(nodes, i).cost]_vars

\* REWIRE has just lowered the cost of a node two levels below the new
\* node: it re-parented the node's parent, and the cascade rewrote the cost
\* of the node itself
C36_Witness ==
    /\ call = "stepMicro" /\ ran = "REWIRE" /\ ret = FALSE
    /\ \E i \in NodeIds :
           LET parentId == At(nodes, i).parentId
           IN  /\ parentId # null
               /\ Rewired(At(nodes, parentId))
               /\ At(nodes, parentId).parentId = Len(nodes) - 1
               /\ i < Len(nodes) - 1

-----------------------------------------------------------------------------
(* The path over time *)

\* C37: when getPath returns a non-empty sequence before a stepMicro or
\* step() call, it returns a non-empty sequence after the call, and the cost
\* of the final node of the sequence it returns afterwards is at most the
\* cost of the final node of the sequence it returned before.
C37_PathStaysAndNeverCostsMore ==
    [][LET before == getPath(Tree)
           after == getPath(Tree')
       IN  before # <<>> =>
               /\ after # <<>>
               /\ PathCost(nodes', after) <= PathCost(nodes, before)]_vars

\* REWIRE has just lowered the cost of the final node of the path: the node
\* was in the goal band before (getPath returned a path then), and it now
\* hangs below the new node, to which REWIRE re-parented it
C37_Witness ==
    /\ call = "stepMicro" /\ ran = "REWIRE" /\ ret = FALSE
    /\ LET path == getPath(Tree)
       IN  /\ path # <<>>
           /\ Len(path) >= 2
           /\ path[Len(path) - 1] = Len(nodes) - 1

-----------------------------------------------------------------------------
(* Which micro-operations write the node list *)

\* the micro-operations that only read the node list
ReadOnlySteps == {"SAMPLE", "NEAREST", "STEER", "COLLISION_CHECK", "NEIGHBORS",
                  "CHOOSE_PARENT"}

\* C38: a stepMicro call taken at SAMPLE, NEAREST, STEER, COLLISION_CHECK,
\* NEIGHBORS or CHOOSE_PARENT leaves the node list as it was (every node's
\* id, coordinates, parentId, cost and children); and under RRT no call
\* changes the parentId or the cost of a node that exists.
C38_OnlyAddNodeAndRewireWrite ==
    /\ [][(call' = "stepMicro" /\ microState \in ReadOnlySteps) =>
              nodes' = nodes]_vars
    /\ [][algorithm = "RRT" =>
              \A i \in NodeIds :
                  /\ At(nodes', i).parentId = At(nodes, i).parentId
                  /\ At(nodes', i).cost = At(nodes, i).cost]_vars

\* CHOOSE_PARENT has just picked, in a tree of three nodes or more, a parent
\* other than the nearest node, and no node carries the coming node's id yet
C38_Witness ==
    /\ call = "stepMicro" /\ ran = "CHOOSE_PARENT" /\ microState = "ADD_NODE"
    /\ Len(nodes) >= 3
    /\ tempBestParent # tempNearestNode
    /\ \A i \in NodeIds : ~InSeq(Len(nodes), At(nodes, i).children)

-----------------------------------------------------------------------------
(* The play loop: the App component with its Play, Step and code view       *)
(* buttons.  Here driver also carries isRunning, found, path and isCodeOpen, *)
(* and loopMaxIterations: the maxIterations seen by the step() closure of    *)
(* the animation effect, which is the value of the render in which that      *)
(* effect last ran.                                                          *)

\* const stepsPerFrame = isCodeOpen ? 1 : 5
StepsPerFrame == 5

\* the values the Max Iterations slider is moved between
PlayIterations == 4
PlayCaps == {2, PlayIterations}

PlayInit ==
    /\ driver = [tree |-> FALSE, start |-> Start, goal |-> Goal,
                 obstacles |-> NoObstacles, algorithm |-> "RRT",
                 stepSize |-> StepSizeValue, maxIterations |-> 2,
                 goalBias |-> GoalBiasValue, searchRadius |-> SearchRadiusValue,
                 isRunning |-> FALSE, found |-> FALSE, path |-> <<>>,
                 isCodeOpen |-> FALSE, loopMaxIterations |-> 2]
    /\ nodes = NoPlanner.nodes
    /\ microState = NoPlanner.microState
    /\ tempSample = NoPlanner.tempSample
    /\ tempNearestNode = NoPlanner.tempNearestNode
    /\ tempNewPoint = NoPlanner.tempNewPoint
    /\ tempNeighbors = NoPlanner.tempNeighbors
    /\ tempBestParent = NoPlanner.tempBestParent
    /\ algorithm = NoPlanner.algorithm
    /\ obstacles = NoPlanner.obstacles
    /\ params = NoPlanner.params
    /\ call = "mount"
    /\ ret = TRUE
    /\ ran = "none"
    /\ last = TRUE

\* the render after a handler has left the App state as new: the animation
\* effect runs again, and its closure sees the current maxIterations, when
\* one of its dependencies has changed
Rendered(old, new) ==
    IF <<new.isRunning, new.algorithm, new.obstacles, new.start, new.goal,
         new.found, new.isCodeOpen>>
           # <<old.isRunning, old.algorithm, old.obstacles, old.start, old.goal,
               old.found, old.isCodeOpen>>
    THEN [new EXCEPT !.loopMaxIterations = new.maxIterations]
    ELSE new

\* resetSimulation on the App state d
resetState(d) ==
    [d EXCEPT !.isRunning = FALSE, !.path = <<>>, !.found = FALSE, !.tree = FALSE]

\* initTree as seen by a closure whose maxIterations is maxIter
treeOf(d, maxIter) ==
    IF d.tree THEN Tree
    ELSE constructor(d.start, d.obstacles,
                     [stepSize |-> d.stepSize, maxIterations |-> maxIter,
                      goalBias |-> d.goalBias, searchRadius |-> d.searchRadius],
                     d.algorithm)

\* syncTreeState(tree) in a closure whose maxIterations is maxIter
syncTreeState(d, t, maxIter) ==
    LET currentPath == getPath(t)
        d1 == IF Len(currentPath) > 0
              THEN [d EXCEPT !.path = currentPath,
                             !.found = TRUE,
                             !.isRunning = IF ~d.found /\ d.algorithm = "RRT"
                                           THEN FALSE ELSE @]
              ELSE d
    IN  IF Len(t.nodes) >= maxIter THEN [d1 EXCEPT !.isRunning = FALSE] ELSE d1

\* the planners n step() calls in a row can leave, each with the value its
\* last stepMicro call returned
RECURSIVE stepsRun(_, _)
stepsRun(rs, n) ==
    IF n = 0 THEN rs
    ELSE stepsRun(UNION {{[t |-> step(r.t, draw).t, last |-> step(r.t, draw).last] :
                                draw \in DrawsOfStep(r.t)} : r \in rs}, n - 1)

\* the for loop of App.step: one stepMicro call when the code view is open,
\* stepsPerFrame step() calls otherwise
frameRun(t, isCodeOpen) ==
    IF isCodeOpen
    THEN {[t |-> stepMicro(t, draw).t, last |-> stepMicro(t, draw).ret] :
              draw \in DrawsOfStepMicro(t)}
    ELSE stepsRun({[t |-> t, last |-> TRUE]}, StepsPerFrame)

\* what a handler leaves behind: planner t, App state d
Leave(t, d, lastRet) ==
    /\ Install(t)
    /\ driver' = Rendered(driver, d)
    /\ ret' = TRUE
    /\ ran' = "none"
    /\ last' = lastRet

\* one animation frame while isRunning: App.step, then syncTreeState
animate ==
    /\ driver.isRunning
    /\ call' = "animate"
    /\ LET tree == treeOf(driver, driver.loopMaxIterations)
       IN  \E r \in frameRun(tree, driver.isCodeOpen) :
               Leave(r.t, syncTreeState([driver EXCEPT !.tree = TRUE], r.t,
                                        driver.loopMaxIterations),
                     r.last)

\* the Play button
togglePlay ==
    /\ call' = "togglePlay"
    /\ IF driver.isRunning
       THEN Leave(Tree, [driver EXCEPT !.isRunning = FALSE], last)
       ELSE LET shown == IF driver.tree THEN Len(nodes) ELSE 0
                reset == \/ shown >= driver.maxIterations
                         \/ driver.found /\ driver.algorithm = "RRT"
            IN  IF reset
                THEN Leave(NoPlanner, [resetState(driver) EXCEPT !.isRunning = TRUE],
                           TRUE)
                ELSE Leave(Tree, [driver EXCEPT !.isRunning = TRUE], last)

\* the Step button's disabled attribute
stepButtonDisabled ==
    \/ driver.isRunning
    \/ driver.found /\ driver.algorithm = "RRT"
    \/ (IF driver.tree THEN Len(nodes) ELSE 0) >= driver.maxIterations

\* handleStep that drains a full iteration whether the code view is open or not
handleStepAlwaysFull(draw) ==
    IF driver.isRunning
    THEN [t |-> Tree, d |-> [driver EXCEPT !.isRunning = FALSE], last |-> last]
    ELSE LET tree == treeOf(driver, driver.maxIterations)
             t1 == step(tree, draw).t
         IN  [t |-> t1,
              d |-> syncTreeState([driver EXCEPT !.tree = TRUE], t1,
                                  driver.maxIterations),
              last |-> step(tree, draw).last]

\* handleStep: the planner and the App state it leaves, for the draw its
\* SAMPLE reads
handleStep(draw) ==
    IF driver.isRunning
    THEN [t |-> Tree, d |-> [driver EXCEPT !.isRunning = FALSE], last |-> last]
    ELSE LET tree == treeOf(driver, driver.maxIterations)
             t1 == IF driver.isCodeOpen THEN stepMicro(tree, draw).t
                   ELSE step(tree, draw).t
             r1 == IF driver.isCodeOpen THEN stepMicro(tree, draw).ret
                   ELSE step(tree, draw).last
         IN  [t |-> t1,
              d |-> syncTreeState([driver EXCEPT !.tree = TRUE], t1,
                                  driver.maxIterations),
              last |-> r1]

\* a press of the Step button: a disabled button drops the click, an enabled
\* one calls handleStep
PressStep ==
    /\ call' = "pressStep"
    /\ IF stepButtonDisabled
       THEN Leave(Tree, driver, last)
       ELSE LET tree == treeOf(driver, driver.maxIterations)
            IN  \E draw \in (IF driver.isCodeOpen THEN DrawsOfStepMicro(tree)
                             ELSE DrawsOfStep(tree)) :
                    LET r == handleStep(draw)
                    IN  Leave(r.t, r.d, r.last)

\* the Show Code / Hide Code button
setIsCodeOpen ==
    /\ call' = "setIsCodeOpen"
    /\ Leave(Tree, [driver EXCEPT !.isCodeOpen = ~@], last)

\* the Max Iterations slider: maxIterations is no dependency of the reset effect
setMaxIterations ==
    /\ call' = "setMaxIterations"
    /\ \E v \in PlayCaps : Leave(Tree, [driver EXCEPT !.maxIterations = v], last)

\* the algorithm buttons: a change of algorithm runs the reset effect
setAlgorithm ==
    /\ call' = "setAlgorithm"
    /\ \E v \in AlgorithmTypes :
           IF v = driver.algorithm
           THEN Leave(Tree, driver, last)
           ELSE Leave(NoPlanner, resetState([driver EXCEPT !.algorithm = v]), TRUE)

\* the Reset button
resetButton ==
    /\ call' = "resetSimulation"
    /\ Leave(NoPlanner, resetState(driver), TRUE)

PlayNext ==
    \/ animate
    \/ togglePlay
    \/ PressStep
    \/ setIsCodeOpen
    \/ setMaxIterations
    \/ setAlgorithm
    \/ resetButton

PlaySpec == PlayInit /\ [][PlayNext]_vars

-----------------------------------------------------------------------------
(* Properties of the play loop *)

\* C34: in the play loop, under RRT and under RRT* alike, the sync in which
\* a path is first found (found goes from false to true) leaves isRunning
\* false; and once a path is found the simulation goes from paused to
\* running only by a press of the play button.
C34_StopsWhenPathFirstFound ==
    /\ [][(call' = "animate" /\ ~driver.found /\ driver'.found) =>
              ~driver'.isRunning]_vars
    /\ [][(driver.found /\ driver'.found /\ ~driver.isRunning /\ driver'.isRunning) =>
              call' = "togglePlay"]_vars


\* C35: a press of Step while not running advances the planner by one
\* step() call when the code view is closed (the node count grows by at most
\* 1) and by one stepMicro call when it is open; a press of Step while
\* running leaves isRunning false and the planner as it was.
C35_StepAdvancesOnceOrPauses ==
    [][call' = "pressStep" =>
          IF driver.isRunning
          THEN ~driver'.isRunning /\ Tree' = Tree
          ELSE LET tree == treeOf(driver, driver.maxIterations)
               IN  IF driver.isCodeOpen
                   THEN \E draw \in Draws : Tree' = stepMicro(tree, draw).t
                   ELSE /\ \E draw \in Draws : Tree' = step(tree, draw).t
                        /\ Len(nodes') <= Len(tree.nodes) + 1]_vars


\* C35 amended: a press of Step while the button is enabled (not running, no
\* path found under RRT, node count shown below maxIterations) advances the
\* planner by one step() call when the code view is closed (the node count
\* grows by at most 1) and by one stepMicro call when it is open; a press
\* while the button is disabled, running included, changes nothing.
C35_EnabledStepAdvancesOnce ==
    [][call' = "pressStep" =>
          IF stepButtonDisabled
          THEN Tree' = Tree /\ driver' = driver
          ELSE LET tree == treeOf(driver, driver.maxIterations)
               IN  /\ ~driver'.isRunning
                   /\ IF driver.isCodeOpen
                      THEN \E draw \in Draws : Tree' = stepMicro(tree, draw).t
                      ELSE /\ \E draw \in Draws : Tree' = step(tree, draw).t
                           /\ Len(nodes') <= Len(tree.nodes) + 1]_vars

\* a press of Step with the code view open has just run one micro-operation
\* in the middle of an iteration
C35_Witness ==
    /\ call = "pressStep" /\ driver.isCodeOpen /\ ~driver.isRunning
    /\ driver.tree /\ Len(nodes) >= 2
    /\ microState = "COLLISION_CHECK"
    /\ tempNewPoint # nullPoint


\* C39: an animation frame that starts with the driver running and its
\* planner saturated (nodes.length >= the planner's maxIterations, so that
\* every advance is a no-op) leaves isRunning false at its sync.
C39_SaturatedPlannerStopsLoop ==
    [][(call' = "animate" /\ driver.isRunning /\ driver.tree /\ Saturated(Tree)) =>
          ~driver'.isRunning]_vars

\* the path cost handed to Stats: treeRef.current.nodes[path[0]].cost, or
\* null (there is no path, or no planner)
pathCost ==
    IF Len(driver.path) > 0 /\ driver.tree
    THEN At(nodes, driver.path[1]).cost
    ELSE null

\* C40: whenever the driver holds a non-empty path, the path cost handed to
\* Stats is the accumulated cost of the final, goal-side node of that path.
C40_PathCostIsFinalNodeCost ==
    Len(driver.path) > 0 =>
        pathCost = At(nodes, driver.path[Len(driver.path)]).cost

====
